---- MODULE Spec2Model ----
(***************************************************************************)
(* Model of the medical-image-platform backend: the WebSocket connection   *)
(* manager (services/websocket_manager.py), the protocol handler           *)
(* (api/websocket.py), the analysis workload (services/analysis_service.py)*)
(* and the delete endpoint (api/analysis.py).                              *)
(*                                                                         *)
(* Every coroutine is a task with a program counter.  A task runs          *)
(* atomically from one await to the next (asyncio's cooperative            *)
(* scheduling); each action below is one such atomic block.  The awaits    *)
(* that suspend are websocket.send_text, asyncio.sleep and the database    *)
(* calls of the AsyncSession.                                              *)
(***************************************************************************)
EXTENDS Integers, Sequences, FiniteSets, TLC

\* ------------------------------------------------------------------ bounds
MaxMsgs == 1          \* control messages the connections send over a run
MaxExtOps == 1        \* publish / broadcast calls made by the external driver
MaxFaults == 2        \* database calls of a workload that raise
MaxBreaks == 1        \* channels whose peer goes away without a close frame

Clients == {"c1", "c2"}          \* client ids (path parameter client_id)
Analyses == {"a1", "a2"}         \* analysis ids, also the topics
Workloads == {"a1"}              \* the analyses followed by watchers on their WebSockets
Records == {"a1", "a2"}          \* analyses for which a record is created and a workload runs
Channels == {1, 2}               \* WebSocket objects, in the order they are opened
Watchers == {1}                  \* the WebSockets opened while a workload is followed
Tomb == "tomb"                   \* a deleted slot of the connection dict
NoCode == "none"                 \* a NULL column / absent message field

\* ------------------------------------------------------------------ tasks
ConnTasks == {<<"conn", ch>> : ch \in Channels}
WorkTasks == {<<"work", a>> : a \in Records}
DelTasks == {<<"del", a>> : a \in Workloads}
ExtTask == <<"ext", 0>>
Tasks == ConnTasks \cup WorkTasks \cup DelTasks \cup {ExtTask}

VARIABLES
    active_connections,      \* ConnectionManager.active_connections: the dict's entry array
    analysis_subscriptions,  \* ConnectionManager.analysis_subscriptions: topic -> list of client ids
    pc,                      \* where each task stands
    job,                     \* the manager call a task is suspended in
    chanClient,              \* the client_id each WebSocket was opened with
    broken,                  \* WebSockets whose send_text raises
    lastUpd,                 \* per WebSocket and workload: status of the last analysis_update written to it
    lastRet,                 \* the manager call that ended last: what it sent, what failed, whether it raised
    db,                      \* the analysisresult table: id -> row
    sess,                    \* per workload: the AnalysisResult instance of its own session
    wstep,                   \* per workload: how many entries of progress_steps it has taken
    dobj,                    \* per delete request: the AnalysisResult instance of its session
    extOps,                  \* calls the external driver has made
    msgs,                    \* control messages received so far
    faults,                  \* database calls that raised so far
    rcv,                     \* per WebSocket: the lifecycle notifications written to it, in order
    log                      \* per workload and delete request: its commits and manager calls, in order

vars == <<active_connections, analysis_subscriptions, pc, job, chanClient, broken,
          lastUpd, lastRet, db, sess, wstep, dobj, extOps, msgs, faults, rcv, log>>

regVars == <<active_connections, analysis_subscriptions>>
lifeVars == <<db, sess, wstep, dobj, faults>>

\* --------------------------------------------------- the connection dict
\* A Python dict keeps its entries in insertion order; del leaves a dead slot
\* and a new key is appended, which is what a live iterator observes.
Has(conns, c) == \E i \in 1..Len(conns) : conns[i].id = c

Ws(conns, c) == conns[CHOOSE i \in 1..Len(conns) : conns[i].id = c].ws

Size(conns) == Cardinality({i \in 1..Len(conns) : conns[i].id # Tomb})

Keys(conns) == {conns[i].id : i \in 1..Len(conns)} \ {Tomb}

\* a registration that keeps the WebSocket already stored for the id
PutKeepsSocket(conns, c, ch) ==
    IF Has(conns, c) THEN conns ELSE Append(conns, [id |-> c, ws |-> ch])

\* self.active_connections[client_id] = websocket
Put(conns, c, ch) ==
    IF Has(conns, c)
    THEN [i \in 1..Len(conns) |-> IF conns[i].id = c THEN [id |-> c, ws |-> ch] ELSE conns[i]]
    ELSE Append(conns, [id |-> c, ws |-> ch])

\* del self.active_connections[client_id]
Del(conns, c) ==
    [i \in 1..Len(conns) |-> IF conns[i].id = c THEN [id |-> Tomb, ws |-> 0] ELSE conns[i]]

\* ------------------------------------------------------ subscriber lists
InList(seq, c) == \E i \in 1..Len(seq) : seq[i] = c

\* list.remove(c): drops the first occurrence
RemoveFirst(seq, c) ==
    IF ~InList(seq, c) THEN seq
    ELSE LET k == CHOOSE i \in 1..Len(seq) : seq[i] = c /\ \A j \in 1..(i-1) : seq[j] # c
         IN  SubSeq(seq, 1, k-1) \o SubSeq(seq, k+1, Len(seq))

Restrict(f, S) == [x \in S |-> f[x]]

\* a disconnect that forgets the subscriber lists
PruneKeepsLists(subs, c) == subs

\* ConnectionManager.disconnect, the subscription half: remove the client from
\* every list, then rebuild the dict without the empty lists.
Prune(subs, c) ==
    LET removed == [t \in DOMAIN subs |-> RemoveFirst(subs[t], c)]
    IN  Restrict(removed, {t \in DOMAIN subs : removed[t] # <<>>})

\* ConnectionManager.disconnect, the connection half
Unregister(conns, c) == IF Has(conns, c) THEN Del(conns, c) ELSE conns

RECURSIVE UnregisterAll(_, _)
UnregisterAll(conns, seq) ==
    IF seq = <<>> THEN conns ELSE UnregisterAll(Unregister(conns, Head(seq)), Tail(seq))

RECURSIVE PruneAll(_, _)
PruneAll(subs, seq) ==
    IF seq = <<>> THEN subs ELSE PruneAll(Prune(subs, Head(seq)), Tail(seq))

\* a subscribe that appends without looking for the client in the list
SubscribeOpAppends(subs, c, a) ==
    [t \in DOMAIN subs \cup {a} |->
        IF t # a THEN subs[t]
        ELSE IF a \in DOMAIN subs THEN Append(subs[a], c) ELSE <<c>>]

\* ConnectionManager.subscribe_to_analysis
SubscribeOp(subs, c, a) ==
    LET withKey == IF a \in DOMAIN subs THEN subs
                   ELSE [t \in DOMAIN subs \cup {a} |-> IF t = a THEN <<>> ELSE subs[t]]
    IN  IF InList(withKey[a], c) THEN withKey
        ELSE [withKey EXCEPT ![a] = Append(@, c)]

\* ConnectionManager.unsubscribe_from_analysis
UnsubscribeOp(subs, c, a) ==
    IF a \in DOMAIN subs /\ InList(subs[a], c)
    THEN [subs EXCEPT ![a] = RemoveFirst(@, c)]
    ELSE subs

\* list(self.active_connections.keys())
KeyList(conns) ==
    LET live == SelectSeq(conns, LAMBDA e : e.id # Tomb)
    IN  [i \in 1..Len(live) |-> live[i].id]

\* ConnectionManager.get_connection_stats
get_connection_stats(conns, subs) ==
    [total_connections |-> Size(conns),
     active_subscriptions |-> Cardinality(DOMAIN subs),
     clients |-> KeyList(conns)]

\* a message without connection_stats
NoStats == [total_connections |-> 0 - 1, active_subscriptions |-> 0 - 1, clients |-> <<>>]

\* --------------------------------------------------------------- messages
Msg(type, aid, status, progress, code) ==
    [type |-> type, aid |-> aid, status |-> status, progress |-> progress, code |-> code,
     connection_stats |-> NoStats]

NoMsg == Msg("none", NoCode, NoCode, 0, NoCode)

IdleJob ==
    [op |-> "idle", topic |-> NoCode, msg |-> NoMsg, snap |-> <<>>, pos |-> 0,
     used |-> 0, left |-> 0, disc |-> <<>>, got |-> <<>>, skipped |-> <<>>,
     start |-> {}, ret |-> "none", exc |-> "none"]

\* what a finished call leaves behind for the observer: which call it was,
\* whether a send of it failed, whether it raised
Ret(t, j, raised) ==
    [op |-> j.op, failed |-> j.disc # <<>>, raised |-> raised]

NoRet == Ret(ExtTask, IdleJob, FALSE)

Min(S) == CHOOSE x \in S : \A y \in S : x <= y

ConnOf(ch) == <<"conn", ch>>

\* send_text raises on a socket whose peer is gone or that was closed
SendFails(ch) == ch \in broken \/ pc[ConnOf(ch)] = "closed"

\* websocket.send_text on ch writes m unless the socket is broken
Written(upd, ch, m) ==
    IF m.type = "analysis_update" /\ m.aid \in Workloads
    THEN [upd EXCEPT ![ch][m.aid] = m.status] ELSE upd

\* the message types of the analysis lifecycle
Notifications == {"analysis_update", "new_analysis_started", "analysis_deleted"}

\* what the peer of ch has read after m was written to it
Heard(r, ch, m) ==
    IF m.type \in Notifications /\ m.aid \in Workloads
    THEN [r EXCEPT ![ch] = Append(@, m)] ELSE r

\* ------------------------------------------------- ConnectionManager calls
\* Each operator below is one atomic block of a manager coroutine: it runs on
\* the registry as the block finds it (conns, subs), and either stops at the
\* next send_text (pc "call") or returns to the caller (pc j.ret).

\* the end of send_personal_message / send_analysis_update / broadcast:
\* disconnect() for every client whose send raised, then return
Finish(t, j, conns, subs) ==
    /\ active_connections' = UnregisterAll(conns, j.disc)
    /\ analysis_subscriptions' = PruneAll(subs, j.disc)
    /\ job' = [job EXCEPT ![t] = IdleJob]
    /\ pc' = [pc EXCEPT ![t] = j.ret]
    /\ lastRet' = Ret(t, j, FALSE)
    /\ UNCHANGED <<lastUpd, rcv>>

\* an exception leaves the coroutine: no cleanup runs
Raise(t, j, conns, subs) ==
    /\ active_connections' = conns
    /\ analysis_subscriptions' = subs
    /\ job' = [job EXCEPT ![t] = IdleJob]
    /\ pc' = [pc EXCEPT ![t] = j.exc]
    /\ lastRet' = Ret(t, j, TRUE)
    /\ UNCHANGED <<lastUpd, rcv>>

\* a send_text whose exception is not caught by the loop around it
SendRaising(t, j, conns, subs, c, ch) ==
    IF SendFails(ch) THEN Raise(t, j, conns, subs)
    ELSE /\ active_connections' = conns
         /\ analysis_subscriptions' = subs
         /\ job' = [job EXCEPT ![t] = [j EXCEPT !.got = Append(@, [id |-> c, ws |-> ch])]]
         /\ lastUpd' = Written(lastUpd, ch, j.msg)
         /\ rcv' = Heard(rcv, ch, j.msg)
         /\ pc' = [pc EXCEPT ![t] = "call"]
         /\ UNCHANGED lastRet

\* await websocket.send_text(json.dumps(message)) inside try/except: the
\* message is written, or the client id is noted for disconnection
Send(t, j, conns, subs, c, ch) ==
    /\ active_connections' = conns
    /\ analysis_subscriptions' = subs
    /\ job' = [job EXCEPT ![t] =
                 IF SendFails(ch) THEN [j EXCEPT !.disc = Append(@, c)]
                 ELSE [j EXCEPT !.got = Append(@, [id |-> c, ws |-> ch])]]
    /\ lastUpd' = IF SendFails(ch) THEN lastUpd ELSE Written(lastUpd, ch, j.msg)
    /\ rcv' = IF SendFails(ch) THEN rcv ELSE Heard(rcv, ch, j.msg)
    /\ pc' = [pc EXCEPT ![t] = "call"]
    /\ UNCHANGED lastRet

\* a publish that walks the live subscriber list instead of its copy
PubAdvanceLive(t, j, conns, subs) ==
    LET live == IF j.topic \in DOMAIN subs THEN subs[j.topic] ELSE <<>>
        cand == {k \in j.pos..Len(live) : Has(conns, live[k])}
    IN  IF cand # {}
        THEN LET k == Min(cand)
                 c == live[k]
             IN  Send(t, [j EXCEPT !.pos = k + 1, !.snap = live,
                                   !.skipped = @ \o SubSeq(live, j.pos, k - 1)],
                      conns, subs, c, Ws(conns, c))
        ELSE Finish(t, [j EXCEPT !.pos = Len(live) + 1, !.snap = live,
                                 !.skipped = @ \o SubSeq(live, Min({j.pos, Len(live) + 1}), Len(live))],
                    conns, subs)

\* send_analysis_update: the loop over the copied subscriber list, from its
\* head to the next send; subscribers that are not connected are passed over
PubAdvance(t, j, conns, subs) ==
    LET cand == {k \in j.pos..Len(j.snap) : Has(conns, j.snap[k])}
    IN  IF cand # {}
        THEN LET k == Min(cand)
                 c == j.snap[k]
             IN  Send(t, [j EXCEPT !.pos = k + 1,
                                   !.skipped = @ \o SubSeq(j.snap, j.pos, k - 1)],
                      conns, subs, c, Ws(conns, c))
        ELSE Finish(t, [j EXCEPT !.pos = Len(j.snap) + 1,
                                 !.skipped = @ \o SubSeq(j.snap, j.pos, Len(j.snap))],
                    conns, subs)

\* lines 137-142: the message wrapped around update_data
Wrap(analysis_id, update_data) ==
    [update_data EXCEPT !.type = "analysis_update", !.aid = analysis_id]

\* a publish that looks the topic up without testing for its key
StartPublishKeyError(t, conns, subs, topic, data, ret) ==
    LET j == [IdleJob EXCEPT !.op = "pub", !.topic = topic, !.msg = Wrap(topic, data),
                             !.pos = 1, !.ret = ret, !.exc = ret]
    IN  IF topic \notin DOMAIN subs
        THEN Raise(t, j, conns, subs)
        ELSE PubAdvance(t, [j EXCEPT !.snap = subs[topic],
                                     !.start = {subs[topic][i] : i \in 1..Len(subs[topic])}],
                        conns, subs)

\* send_analysis_update(analysis_id, update_data)
StartPublish(t, conns, subs, topic, data, ret) ==
    LET j == [IdleJob EXCEPT !.op = "pub", !.topic = topic, !.msg = Wrap(topic, data),
                             !.pos = 1, !.ret = ret, !.exc = ret]
    IN  IF topic \notin DOMAIN subs
        THEN Finish(t, j, conns, subs)
        ELSE PubAdvance(t, [j EXCEPT !.snap = subs[topic],
                                     !.start = {subs[topic][i] : i \in 1..Len(subs[topic])}],
                        conns, subs)

\* broadcast: one step of the for loop over self.active_connections.items().
\* The dict iterator checks the dict's size on every next(), passes over dead
\* slots, and expects exactly as many entries as the dict had at the start.
BcastAdvance(t, j, conns, subs) ==
    LET cand == {k \in j.pos..Len(conns) : conns[k].id # Tomb}
    IN  IF Size(conns) # j.used THEN Raise(t, j, conns, subs)
        ELSE IF cand = {} THEN Finish(t, j, conns, subs)
        ELSE IF j.left = 0 THEN Raise(t, j, conns, subs)
        ELSE LET k == Min(cand)
             IN  Send(t, [j EXCEPT !.pos = k + 1, !.left = @ - 1],
                      conns, subs, conns[k].id, conns[k].ws)

\* broadcast(message)
StartBroadcast(t, conns, subs, m, ret, exc) ==
    LET j == [IdleJob EXCEPT !.op = "bcast", !.msg = m, !.pos = 1, !.ret = ret, !.exc = exc,
                             !.used = Size(conns), !.left = Size(conns), !.start = Keys(conns)]
    IN  IF Size(conns) = 0
        THEN Finish(t, j, conns, subs)
        ELSE BcastAdvance(t, j, conns, subs)

\* a send_personal_message without try/except and without the membership test
StartPersonalUnguarded(t, conns, subs, c, m, ret) ==
    LET j == [IdleJob EXCEPT !.op = "personal", !.topic = c, !.msg = m, !.ret = ret, !.exc = ret]
    IN  IF Has(conns, c)
        THEN SendRaising(t, j, conns, subs, c, Ws(conns, c))
        ELSE Raise(t, j, conns, subs)

\* send_personal_message(message, client_id)
StartPersonal(t, conns, subs, c, m, ret) ==
    LET j == [IdleJob EXCEPT !.op = "personal", !.topic = c, !.msg = m, !.ret = ret, !.exc = ret]
    IN  IF Has(conns, c)
        THEN Send(t, j, conns, subs, c, Ws(conns, c))
        ELSE Finish(t, j, conns, subs)

\* a suspended manager call resumes after its send_text
JobStep(t) ==
    /\ pc[t] = "call"
    /\ CASE job[t].op = "pub" -> PubAdvance(t, job[t], active_connections, analysis_subscriptions)
         [] job[t].op = "bcast" -> BcastAdvance(t, job[t], active_connections, analysis_subscriptions)
         [] OTHER -> Finish(t, job[t], active_connections, analysis_subscriptions)
    /\ UNCHANGED <<chanClient, broken, db, sess, wstep, dobj, extOps, msgs, faults, log>>

\* ------------------------------------------- the WebSocket endpoint's tasks
\* WebSockets are opened in the order of their numbers, and client ids are
\* taken into use in the order of their names (the ids are interchangeable).
MayOpen(ch, c) ==
    /\ pc[ConnOf(ch)] = "new"
    /\ \A k \in Channels : k < ch => pc[ConnOf(k)] # "new"
    /\ c = "c1" \/ \E k \in Channels : chanClient[k] = "c1"

\* websocket_analysis_endpoint without ?analysis_id: accept, register, then
\* wait in receive_text
Connect(ch, c) ==
    /\ MayOpen(ch, c)
    /\ active_connections' = Put(active_connections, c, ch)
    /\ chanClient' = [chanClient EXCEPT ![ch] = c]
    /\ pc' = [pc EXCEPT ![ConnOf(ch)] = "loop"]
    /\ UNCHANGED <<analysis_subscriptions, job, broken, lastUpd, rcv, lastRet,
                   db, sess, wstep, dobj, extOps, msgs, faults, log>>

\* websocket_analysis_endpoint with ?analysis_id=a: register, subscribe and
\* send the confirmation
ConnectSubscribed(ch, c, a) ==
    /\ MayOpen(ch, c)
    /\ chanClient' = [chanClient EXCEPT ![ch] = c]
    /\ StartPersonal(ConnOf(ch), Put(active_connections, c, ch),
                     SubscribeOp(analysis_subscriptions, c, a), c,
                     Msg("subscription_confirmed", a, NoCode, 0, NoCode), "loop")
    /\ UNCHANGED <<broken, db, sess, wstep, dobj, extOps, msgs, faults, log>>

\* handle_websocket_message, type "subscribe" with an analysis_id
RecvSubscribe(ch, a) ==
    /\ pc[ConnOf(ch)] = "loop"
    /\ msgs < MaxMsgs
    /\ msgs' = msgs + 1
    /\ StartPersonal(ConnOf(ch), active_connections,
                     SubscribeOp(analysis_subscriptions, chanClient[ch], a), chanClient[ch],
                     Msg("subscription_confirmed", a, NoCode, 0, NoCode), "loop")
    /\ UNCHANGED <<chanClient, broken, db, sess, wstep, dobj, extOps, faults, log>>

\* handle_websocket_message, type "unsubscribe" with an analysis_id
RecvUnsubscribe(ch, a) ==
    /\ pc[ConnOf(ch)] = "loop"
    /\ msgs < MaxMsgs
    /\ msgs' = msgs + 1
    /\ StartPersonal(ConnOf(ch), active_connections,
                     UnsubscribeOp(analysis_subscriptions, chanClient[ch], a), chanClient[ch],
                     Msg("unsubscription_confirmed", a, NoCode, 0, NoCode), "loop")
    /\ UNCHANGED <<chanClient, broken, db, sess, wstep, dobj, extOps, faults, log>>

\* handle_websocket_message, type "ping": the pong reply
RecvPing(ch) ==
    /\ pc[ConnOf(ch)] = "loop"
    /\ msgs < MaxMsgs
    /\ msgs' = msgs + 1
    /\ StartPersonal(ConnOf(ch), active_connections, analysis_subscriptions, chanClient[ch],
                     Msg("pong", NoCode, NoCode, 0, NoCode), "loop")
    /\ UNCHANGED <<chanClient, broken, db, sess, wstep, dobj, extOps, faults, log>>

\* the error replies of the receive loop and of handle_websocket_message
ErrorReply(why) == Msg("error", NoCode, NoCode, 0, why)

\* handle_websocket_message, type "subscribe" without analysis_id: the error
\* reply of lines 102-106
RecvSubscribeNoId(ch) ==
    /\ pc[ConnOf(ch)] = "loop"
    /\ msgs < MaxMsgs
    /\ msgs' = msgs + 1
    /\ StartPersonal(ConnOf(ch), active_connections, analysis_subscriptions, chanClient[ch],
                     ErrorReply("analysis_id required for subscription"), "loop")
    /\ UNCHANGED <<chanClient, broken, db, sess, wstep, dobj, extOps, faults, log>>

\* handle_websocket_message, type "unsubscribe" without analysis_id: the
\* branch of line 108 is taken, the if of line 111 has no else, nothing is
\* sent
RecvUnsubscribeNoId(ch) ==
    /\ pc[ConnOf(ch)] = "loop"
    /\ msgs < MaxMsgs
    /\ msgs' = msgs + 1
    /\ UNCHANGED <<active_connections, analysis_subscriptions, pc, job, chanClient, broken,
                   lastUpd, rcv, lastRet, db, sess, wstep, dobj, extOps, faults, log>>

\* handle_websocket_message, type "status": the statistics are read and sent
RecvStatus(ch) ==
    /\ pc[ConnOf(ch)] = "loop"
    /\ msgs < MaxMsgs
    /\ msgs' = msgs + 1
    /\ StartPersonal(ConnOf(ch), active_connections, analysis_subscriptions, chanClient[ch],
                     [Msg("status_response", NoCode, NoCode, 0, NoCode)
                        EXCEPT !.connection_stats =
                            get_connection_stats(active_connections, analysis_subscriptions)],
                     "loop")
    /\ UNCHANGED <<chanClient, broken, db, sess, wstep, dobj, extOps, faults, log>>

\* handle_websocket_message, any other type: the error reply of lines 136-140
RecvUnknown(ch) ==
    /\ pc[ConnOf(ch)] = "loop"
    /\ msgs < MaxMsgs
    /\ msgs' = msgs + 1
    /\ StartPersonal(ConnOf(ch), active_connections, analysis_subscriptions, chanClient[ch],
                     ErrorReply("Unknown message type"), "loop")
    /\ UNCHANGED <<chanClient, broken, db, sess, wstep, dobj, extOps, faults, log>>

\* the receive loop, lines 52-58: json.loads raises JSONDecodeError
RecvMalformed(ch) ==
    /\ pc[ConnOf(ch)] = "loop"
    /\ msgs < MaxMsgs
    /\ msgs' = msgs + 1
    /\ StartPersonal(ConnOf(ch), active_connections, analysis_subscriptions, chanClient[ch],
                     ErrorReply("Invalid JSON format"), "loop")
    /\ UNCHANGED <<chanClient, broken, db, sess, wstep, dobj, extOps, faults, log>>

\* the receive loop, lines 53 and 59-63: handle_websocket_message raises
\* (message.get on JSON that is not an object, an unhashable analysis_id)
\* before it has changed anything
RecvRaising(ch) ==
    /\ pc[ConnOf(ch)] = "loop"
    /\ msgs < MaxMsgs
    /\ msgs' = msgs + 1
    /\ StartPersonal(ConnOf(ch), active_connections, analysis_subscriptions, chanClient[ch],
                     ErrorReply("Error processing message"), "loop")
    /\ UNCHANGED <<chanClient, broken, db, sess, wstep, dobj, extOps, faults, log>>

\* receive_text raises WebSocketDisconnect: manager.disconnect(client_id)
Disconnected(ch) ==
    /\ pc[ConnOf(ch)] = "loop"
    /\ active_connections' = Unregister(active_connections, chanClient[ch])
    /\ analysis_subscriptions' = Prune(analysis_subscriptions, chanClient[ch])
    /\ pc' = [pc EXCEPT ![ConnOf(ch)] = "closed"]
    /\ UNCHANGED <<job, chanClient, broken, lastUpd, rcv, lastRet,
                   db, sess, wstep, dobj, extOps, msgs, faults, log>>

\* the peer of an open WebSocket goes away: its next send_text raises
BreakChannel(ch) ==
    /\ pc[ConnOf(ch)] \in {"loop", "call"}
    /\ ch \notin broken
    /\ Cardinality(broken) < MaxBreaks
    /\ broken' = broken \cup {ch}
    /\ UNCHANGED <<active_connections, analysis_subscriptions, pc, job, chanClient,
                   lastUpd, rcv, lastRet, db, sess, wstep, dobj, extOps, msgs, faults, log>>

\* ------------------------------------------------------ external callers
\* some caller publishes an update for topic a (send_analysis_update)
ExtPublish(a) ==
    /\ pc[ExtTask] = "idle"
    /\ extOps < MaxExtOps
    /\ extOps' = extOps + 1
    /\ StartPublish(ExtTask, active_connections, analysis_subscriptions, a,
                    Msg("data", NoCode, "ANALYZING", 5, NoCode), "idle")
    /\ UNCHANGED <<chanClient, broken, db, sess, wstep, dobj, msgs, faults, log>>

\* websocket_broadcast_endpoint: an admin message is broadcast; an exception
\* of broadcast is caught by the endpoint's except clause
ExtBroadcast ==
    /\ pc[ExtTask] = "idle"
    /\ extOps < MaxExtOps
    /\ extOps' = extOps + 1
    /\ StartBroadcast(ExtTask, active_connections, analysis_subscriptions,
                      Msg("broadcast", NoCode, NoCode, 0, NoCode), "idle", "idle")
    /\ UNCHANGED <<chanClient, broken, db, sess, wstep, dobj, msgs, faults, log>>

\* ------------------------------------------------------ analysis records
\* program constants
MIN_PROCESSING_TIME == 10
MAX_PROCESSING_TIME == 45
ConfLow == 75                    \* random.uniform(0.75, 0.98), in hundredths
ConfHigh == 98
NoNum == 0 - 1                   \* a NULL float column / a number absent from a message

\* progress steps that are not in increasing order
progress_steps_unsorted == <<20, 60, 40, 80, 95>>

progress_steps == <<20, 40, 60, 80, 95>>

error_scenarios == {"MODEL_ERROR", "MEMORY_ERROR", "FORMAT_ERROR", "TIMEOUT_ERROR"}

Terminal == {"COMPLETE", "FAILED", "CANCELLED"}
Active == {"PENDING", "ANALYZING"}

\* AIModel.model_type: the three kinds the generator knows, and any other
model_types == {"classification", "segmentation", "detection", "other"}

\* a NULL results_payload column
NoResults == [model_type |-> NoCode, output |-> NoCode, confidence_score |-> NoNum]

\* results that carry no confidence_score of their own
generate_mock_results_bare(model_type, base_confidence) ==
    [model_type |-> model_type, output |-> "generic_output", confidence_score |-> NoNum]

\* _generate_mock_results: one dict per model type, each with the key
\* confidence_score set to base_confidence (in hundredths)
generate_mock_results(model_type, base_confidence) ==
    CASE model_type = "classification" ->
           [model_type |-> model_type, output |-> "prediction",
            confidence_score |-> base_confidence]
      [] model_type = "segmentation" ->
           [model_type |-> model_type, output |-> "segmentation",
            confidence_score |-> base_confidence]
      [] model_type = "detection" ->
           [model_type |-> model_type, output |-> "detection",
            confidence_score |-> base_confidence]
      [] OTHER ->
           [model_type |-> model_type, output |-> "generic_output",
            confidence_score |-> base_confidence]

\* results.get("confidence_score", 0.85)
DefaultConfidence == 85
GetConfidence(results) ==
    IF results.confidence_score = NoNum THEN DefaultConfidence ELSE results.confidence_score

\* AnalysisResult(status=PENDING, progress_percentage=0.0), the other columns NULL
NewRow ==
    [status |-> "PENDING", progress |-> 0, error_code |-> NoCode, error_message |-> NoCode,
     results_payload |-> NoResults, confidence_score |-> NoNum,
     processing_time_seconds |-> NoNum,
     image_id |-> NoCode, ai_model_id |-> NoCode, requested_by |-> NoCode]

\* what a start request names: the image, the model and, optionally, the user
Requests ==
    {[image_id |-> "img1", model_id |-> "m1", user_id |-> NoCode],
     [image_id |-> "img2", model_id |-> "m2", user_id |-> "u1"]}

\* the request of an anonymous caller
AnonymousRequest == [image_id |-> "img1", model_id |-> "m1", user_id |-> NoCode]

\* no usable instance in the session's identity map (never loaded, or expired
\* by the rollback of a failed commit)
NoRow == [NewRow EXCEPT !.status = "none"]

\* an entry of log: a commit, a change of the session's instance, or a call of the manager
Event(ev, status, progress, code) ==
    [ev |-> ev, status |-> status, progress |-> progress, code |-> code]

\* send_analysis_update called with update_data
PubEvent(data) == Event("publish", data.status, data.progress, data.code)

Logged(t, evs) == [log EXCEPT ![t] = @ \o evs]

Work(a) == <<"work", a>>
DelOf(a) == <<"del", a>>

\* an update that carries the status alone
UpdateOfNoProgress(row) == Msg("data", NoCode, row.status, NoNum, row.error_code)

\* the update_data of the workload's send_analysis_update calls
UpdateOf(row) == Msg("data", NoCode, row.status, row.progress, row.error_code)

\* a database call of the workload may raise (a locked database, a lost connection)
MayFault == faults < MaxFaults

\* AnalysisService.start_analysis called for a valid image and an active
\* model: the record is committed, then new_analysis_started is broadcast;
\* the caller then schedules mock_ai_analysis, unless the broadcast raised
StartAnalysisBy(a, req) ==
    /\ pc[Work(a)] = "none"
    /\ a \notin DOMAIN db
    /\ db' = [x \in DOMAIN db \cup {a} |->
                IF x = a THEN [NewRow EXCEPT !.image_id = req.image_id,
                                             !.ai_model_id = req.model_id,
                                             !.requested_by = req.user_id]
                ELSE db[x]]
    /\ StartBroadcast(Work(a), active_connections, analysis_subscriptions,
                      Msg("new_analysis_started", a, "PENDING", 0, NoCode), "get", "aborted")
    /\ log' = Logged(Work(a), <<Event("write", "PENDING", 0, NoCode),
                                Event("broadcast", "PENDING", 0, NoCode)>>)
    /\ UNCHANGED <<chanClient, broken, sess, wstep, dobj, extOps, msgs, faults>>

\* start_analysis called without a user_id
StartAnalysis(a) == StartAnalysisBy(a, AnonymousRequest)

\* what a start request refers to
ImageRefs == {"present", "missing"}
ModelRefs == {"active", "inactive", "missing"}

\* start_analysis, lines 47-56: the ValueError raised for the references, if any
Validate(image, model) ==
    IF image = "missing" THEN "image not found"
    ELSE IF model = "missing" THEN "model not found"
    ELSE IF model = "inactive" THEN "model not active"
    ELSE "ok"

\* a start_analysis that commits the record before it looks at the references
StartRejectedLate(a, image, model) ==
    /\ pc[Work(a)] = "none"
    /\ a \notin DOMAIN db
    /\ Validate(image, model) # "ok"
    /\ db' = [x \in DOMAIN db \cup {a} |-> IF x = a THEN NewRow ELSE db[x]]
    /\ pc' = [pc EXCEPT ![Work(a)] = "rejected"]
    /\ UNCHANGED <<active_connections, analysis_subscriptions, job, chanClient, broken,
                   lastUpd, rcv, lastRet, sess, wstep, dobj, extOps, msgs, faults, log>>

\* AnalysisService.start_analysis called with a missing image, a missing
\* model or an inactive model: ValueError before anything is written
StartRejected(a, image, model) ==
    /\ pc[Work(a)] = "none"
    /\ a \notin DOMAIN db
    /\ Validate(image, model) # "ok"
    /\ pc' = [pc EXCEPT ![Work(a)] = "rejected"]
    /\ UNCHANGED <<active_connections, analysis_subscriptions, job, chanClient, broken,
                   lastUpd, rcv, lastRet, db, sess, wstep, dobj, extOps, msgs, faults, log>>

\* POST /analysis/start, api/analysis.py lines 31-59: the endpoint passes
\* websocket_manager=manager to AnalysisService.start_analysis, which has no
\* such parameter; the call raises TypeError before the service runs, the
\* except clause of line 57 answers HTTP 500 and add_task is never reached
StartTrigger(a) ==
    /\ pc[Work(a)] = "none"
    /\ a \notin DOMAIN db
    /\ pc' = [pc EXCEPT ![Work(a)] = "error500"]
    /\ UNCHANGED <<active_connections, analysis_subscriptions, job, chanClient, broken,
                   lastUpd, rcv, lastRet, db, sess, wstep, dobj, extOps, msgs, faults, log>>

\* a workload that does not look at what session.get returned
WGetGoesOn(a) ==
    /\ pc[Work(a)] = "get"
    /\ \/ /\ a \in DOMAIN db
          /\ sess' = [sess EXCEPT ![a] = db[a]]
          /\ pc' = [pc EXCEPT ![Work(a)] = "refresh"]
          /\ UNCHANGED faults
       \/ /\ a \notin DOMAIN db
          /\ pc' = [pc EXCEPT ![Work(a)] = "refresh"]
          /\ UNCHANGED <<sess, faults>>
       \/ /\ MayFault
          /\ faults' = faults + 1
          /\ pc' = [pc EXCEPT ![Work(a)] = "hget"]
          /\ UNCHANGED sess
    /\ UNCHANGED <<active_connections, analysis_subscriptions, job, chanClient, broken,
                   lastUpd, rcv, lastRet, db, wstep, dobj, extOps, msgs, log>>

\* mock_ai_analysis, line 100: session.get.  A missing record ends the task.
WGet(a) ==
    /\ pc[Work(a)] = "get"
    /\ \/ /\ a \in DOMAIN db
          /\ sess' = [sess EXCEPT ![a] = db[a]]
          /\ pc' = [pc EXCEPT ![Work(a)] = "refresh"]
          /\ UNCHANGED faults
       \/ /\ a \notin DOMAIN db
          /\ pc' = [pc EXCEPT ![Work(a)] = "done"]
          /\ UNCHANGED <<sess, faults>>
       \/ /\ MayFault
          /\ faults' = faults + 1
          /\ pc' = [pc EXCEPT ![Work(a)] = "hget"]
          /\ UNCHANGED sess
    /\ UNCHANGED <<active_connections, analysis_subscriptions, job, chanClient, broken,
                   lastUpd, rcv, lastRet, db, wstep, dobj, extOps, msgs, log>>

\* lines 107-111: session.refresh raises if the row is gone; otherwise the
\* instance becomes ANALYZING at 5 percent
WRefresh(a) ==
    /\ pc[Work(a)] = "refresh"
    /\ \/ /\ a \in DOMAIN db
          /\ sess' = [sess EXCEPT ![a].status = "ANALYZING", ![a].progress = 5]
          /\ pc' = [pc EXCEPT ![Work(a)] = "commit"]
          /\ UNCHANGED faults
       \/ /\ a \notin DOMAIN db
          /\ pc' = [pc EXCEPT ![Work(a)] = "hget"]
          /\ UNCHANGED <<sess, faults>>
       \/ /\ MayFault
          /\ faults' = faults + 1
          /\ pc' = [pc EXCEPT ![Work(a)] = "hget"]
          /\ UNCHANGED sess
    /\ UNCHANGED <<active_connections, analysis_subscriptions, job, chanClient, broken,
                   lastUpd, rcv, lastRet, db, wstep, dobj, extOps, msgs, log>>

\* a commit whose final publish raises into the outer error handler
WCommitThenHandler(a) ==
    /\ pc[Work(a)] = "commit"
    /\ \/ /\ a \in DOMAIN db
          /\ db' = [db EXCEPT ![a] = sess[a]]
          /\ StartPublish(Work(a), active_connections, analysis_subscriptions, a,
                          UpdateOf(sess[a]),
                          IF sess[a].status \in Terminal THEN "hget" ELSE "sleep")
          /\ log' = Logged(Work(a),
                           <<Event("write", sess[a].status, sess[a].progress, sess[a].error_code),
                             PubEvent(UpdateOf(sess[a]))>>)
          /\ UNCHANGED <<sess, faults>>
       \/ /\ a \notin DOMAIN db \/ MayFault
          /\ faults' = IF a \in DOMAIN db THEN faults + 1 ELSE faults
          /\ sess' = [sess EXCEPT ![a] = NoRow]
          /\ pc' = [pc EXCEPT ![Work(a)] = "hget"]
          /\ UNCHANGED <<active_connections, analysis_subscriptions, job, lastUpd, rcv, lastRet, db, log>>
    /\ UNCHANGED <<chanClient, broken, wstep, dobj, extOps, msgs>>

\* a commit whose failure leaves the session's instance as the workload set it
WCommitKeepsInstance(a) ==
    /\ pc[Work(a)] = "commit"
    /\ \/ /\ a \in DOMAIN db
          /\ db' = [db EXCEPT ![a] = sess[a]]
          /\ StartPublish(Work(a), active_connections, analysis_subscriptions, a,
                          UpdateOf(sess[a]),
                          IF sess[a].status \in Terminal THEN "done" ELSE "sleep")
          /\ log' = Logged(Work(a),
                           <<Event("write", sess[a].status, sess[a].progress, sess[a].error_code),
                             PubEvent(UpdateOf(sess[a]))>>)
          /\ UNCHANGED <<sess, faults>>
       \/ /\ a \notin DOMAIN db \/ MayFault
          /\ faults' = IF a \in DOMAIN db THEN faults + 1 ELSE faults
          /\ pc' = [pc EXCEPT ![Work(a)] = "hget"]
          /\ UNCHANGED <<active_connections, analysis_subscriptions, job, lastUpd, rcv, lastRet,
                         db, sess, log>>
    /\ UNCHANGED <<chanClient, broken, wstep, dobj, extOps, msgs>>

\* a commit on a session shared by the workloads: the pending changes of
\* every loaded instance are flushed with it
WCommitSharedSession(a) ==
    /\ pc[Work(a)] = "commit"
    /\ \/ /\ a \in DOMAIN db
          /\ db' = [x \in DOMAIN db |->
                      IF x = a \/ sess[x].status # "none" THEN sess[x] ELSE db[x]]
          /\ StartPublish(Work(a), active_connections, analysis_subscriptions, a,
                          UpdateOf(sess[a]),
                          IF sess[a].status \in Terminal THEN "done" ELSE "sleep")
          /\ log' = Logged(Work(a),
                           <<Event("write", sess[a].status, sess[a].progress, sess[a].error_code),
                             PubEvent(UpdateOf(sess[a]))>>)
          /\ UNCHANGED <<sess, faults>>
       \/ /\ a \notin DOMAIN db \/ MayFault
          /\ faults' = IF a \in DOMAIN db THEN faults + 1 ELSE faults
          /\ sess' = [sess EXCEPT ![a] = NoRow]
          /\ pc' = [pc EXCEPT ![Work(a)] = "hget"]
          /\ UNCHANGED <<active_connections, analysis_subscriptions, job, lastUpd, rcv, lastRet, db, log>>
    /\ UNCHANGED <<chanClient, broken, wstep, dobj, extOps, msgs>>

\* session.commit() of lines 112, 136, 162 and 202, and the
\* send_analysis_update that follows it.  The UPDATE of a row that is gone
\* raises StaleDataError; a commit that raises rolls the session back, which
\* expires its instance.
WCommit(a) ==
    /\ pc[Work(a)] = "commit"
    /\ \/ /\ a \in DOMAIN db
          /\ db' = [db EXCEPT ![a] = sess[a]]
          /\ StartPublish(Work(a), active_connections, analysis_subscriptions, a,
                          UpdateOf(sess[a]),
                          IF sess[a].status \in Terminal THEN "done" ELSE "sleep")
          /\ log' = Logged(Work(a),
                           <<Event("write", sess[a].status, sess[a].progress, sess[a].error_code),
                             PubEvent(UpdateOf(sess[a]))>>)
          /\ UNCHANGED <<sess, faults>>
       \/ /\ a \notin DOMAIN db \/ MayFault
          /\ faults' = IF a \in DOMAIN db THEN faults + 1 ELSE faults
          /\ sess' = [sess EXCEPT ![a] = NoRow]
          /\ pc' = [pc EXCEPT ![Work(a)] = "hget"]
          /\ UNCHANGED <<active_connections, analysis_subscriptions, job, lastUpd, rcv, lastRet, db, log>>
    /\ UNCHANGED <<chanClient, broken, wstep, dobj, extOps, msgs>>

\* lines 132-135: asyncio.sleep returns and the next progress step is set
WStep(a) ==
    /\ pc[Work(a)] = "sleep"
    /\ wstep[a] < Len(progress_steps)
    /\ wstep' = [wstep EXCEPT ![a] = @ + 1]
    /\ sess' = [sess EXCEPT ![a].progress = progress_steps[wstep[a] + 1]]
    /\ pc' = [pc EXCEPT ![Work(a)] = "commit"]
    /\ UNCHANGED <<active_connections, analysis_subscriptions, job, chanClient, broken,
                   lastUpd, rcv, lastRet, db, dobj, extOps, msgs, faults, log>>

\* a simulated failure drawn at every sleep of the progress loop
WFailAnytime(a) ==
    /\ pc[Work(a)] = "sleep"
    /\ wstep[a] <= Len(progress_steps)
    /\ \E code \in error_scenarios :
          sess' = [sess EXCEPT ![a].status = "FAILED", ![a].error_code = code,
                               ![a].error_message = "scenario", ![a].progress = 0]
    /\ pc' = [pc EXCEPT ![Work(a)] = "commit"]
    /\ UNCHANGED <<active_connections, analysis_subscriptions, job, chanClient, broken,
                   lastUpd, rcv, lastRet, db, wstep, dobj, extOps, msgs, faults, log>>

\* lines 146-150 and 195-200: random.random() < 0.05, _simulate_analysis_failure
WFail(a) ==
    /\ pc[Work(a)] = "sleep"
    /\ wstep[a] = Len(progress_steps)
    /\ \E code \in error_scenarios :
          sess' = [sess EXCEPT ![a].status = "FAILED", ![a].error_code = code,
                               ![a].error_message = "scenario", ![a].progress = 0]
    /\ pc' = [pc EXCEPT ![Work(a)] = "commit"]
    /\ UNCHANGED <<active_connections, analysis_subscriptions, job, chanClient, broken,
                   lastUpd, rcv, lastRet, db, wstep, dobj, extOps, msgs, faults, log>>

\* lines 152-160: the mock results and the COMPLETE fields
WComplete(a) ==
    /\ pc[Work(a)] = "sleep"
    /\ wstep[a] = Len(progress_steps)
    /\ \E kind \in model_types, base \in {ConfLow, ConfHigh},
          total \in {MIN_PROCESSING_TIME, MAX_PROCESSING_TIME} :
          LET results == generate_mock_results(kind, base) IN
          sess' = [sess EXCEPT ![a].status = "COMPLETE", ![a].progress = 100,
                               ![a].confidence_score = GetConfidence(results),
                               ![a].results_payload = results,
                               ![a].processing_time_seconds = total]
    /\ pc' = [pc EXCEPT ![Work(a)] = "commit"]
    /\ UNCHANGED <<active_connections, analysis_subscriptions, job, chanClient, broken,
                   lastUpd, rcv, lastRet, db, wstep, dobj, extOps, msgs, faults, log>>

\* an error handler that also clears the requester of the record
WHandlerGetAnonymises(a) ==
    /\ pc[Work(a)] = "hget"
    /\ LET found == IF sess[a].status # "none" THEN sess[a]
                     ELSE IF a \in DOMAIN db THEN db[a] ELSE NoRow
       IN  \/ /\ found.status = "none"
              /\ pc' = [pc EXCEPT ![Work(a)] = "done"]
              /\ UNCHANGED <<sess, faults>>
           \/ /\ found.status # "none"
              /\ sess' = [sess EXCEPT ![a] = [found EXCEPT !.status = "FAILED",
                                                            !.error_message = "unexpected",
                                                            !.error_code = "SYSTEM_ERROR",
                                                            !.requested_by = NoCode]]
              /\ pc' = [pc EXCEPT ![Work(a)] = "hcommit"]
              /\ UNCHANGED faults
           \/ /\ sess[a].status = "none"
              /\ MayFault
              /\ faults' = faults + 1
              /\ pc' = [pc EXCEPT ![Work(a)] = "escaped"]
              /\ UNCHANGED sess
    /\ UNCHANGED <<active_connections, analysis_subscriptions, job, chanClient, broken,
                   lastUpd, rcv, lastRet, db, wstep, dobj, extOps, msgs, log>>

\* _handle_analysis_error, lines 220-224: db.get answers from the identity
\* map when the session still holds the instance, and from the table
\* otherwise; a record that is gone ends the handler
WHandlerGet(a) ==
    /\ pc[Work(a)] = "hget"
    /\ LET found == IF sess[a].status # "none" THEN sess[a]
                     ELSE IF a \in DOMAIN db THEN db[a] ELSE NoRow
       IN  \/ /\ found.status = "none"
              /\ pc' = [pc EXCEPT ![Work(a)] = "done"]
              /\ UNCHANGED <<sess, faults>>
           \/ /\ found.status # "none"
              /\ sess' = [sess EXCEPT ![a] = [found EXCEPT !.status = "FAILED",
                                                            !.error_message = "unexpected",
                                                            !.error_code = "SYSTEM_ERROR"]]
              /\ pc' = [pc EXCEPT ![Work(a)] = "hcommit"]
              /\ UNCHANGED faults
           \/ /\ sess[a].status = "none"
              /\ MayFault
              /\ faults' = faults + 1
              /\ pc' = [pc EXCEPT ![Work(a)] = "escaped"]
              /\ UNCHANGED sess
    /\ UNCHANGED <<active_connections, analysis_subscriptions, job, chanClient, broken,
                   lastUpd, rcv, lastRet, db, wstep, dobj, extOps, msgs, log>>

\* _handle_analysis_error, lines 225-232: commit, then the FAILED update.
\* The handler has no except clause of its own: StaleDataError, or any other
\* error of its commit, leaves the task.
WHandlerCommit(a) ==
    /\ pc[Work(a)] = "hcommit"
    /\ \/ /\ a \in DOMAIN db
          /\ db' = [db EXCEPT ![a] = sess[a]]
          /\ StartPublish(Work(a), active_connections, analysis_subscriptions, a,
                          Msg("data", NoCode, sess[a].status, NoNum, sess[a].error_code),
                          "done")
          /\ log' = Logged(Work(a),
                           <<Event("write", sess[a].status, sess[a].progress, sess[a].error_code),
                             PubEvent(Msg("data", NoCode, sess[a].status, NoNum,
                                          sess[a].error_code))>>)
          /\ UNCHANGED faults
       \/ /\ a \notin DOMAIN db \/ MayFault
          /\ faults' = IF a \in DOMAIN db THEN faults + 1 ELSE faults
          /\ pc' = [pc EXCEPT ![Work(a)] = "escaped"]
          /\ UNCHANGED <<active_connections, analysis_subscriptions, job, lastUpd, rcv, lastRet, db, log>>
    /\ UNCHANGED <<chanClient, broken, sess, wstep, dobj, extOps, msgs>>

\* delete_analysis, lines 193-219: the SELECT; 404 if there is no record; a
\* record that is still running is marked CANCELLED on the session's
\* instance and the update is published
DSelect(a) ==
    /\ pc[DelOf(a)] = "none"
    /\ IF a \notin DOMAIN db
       THEN /\ pc' = [pc EXCEPT ![DelOf(a)] = "done"]
            /\ UNCHANGED <<active_connections, analysis_subscriptions, job, lastUpd, rcv, lastRet,
                           dobj, log>>
       ELSE IF db[a].status \in Active
       THEN /\ dobj' = [dobj EXCEPT ![a] = [db[a] EXCEPT !.status = "CANCELLED",
                                                          !.error_message = "deleted",
                                                          !.error_code = "USER_DELETED"]]
            /\ StartPublish(DelOf(a), active_connections, analysis_subscriptions, a,
                            Msg("data", NoCode, "CANCELLED", NoNum, "USER_DELETED"),
                            "delete")
            /\ log' = Logged(DelOf(a),
                             <<Event("cancel", "CANCELLED", db[a].progress, "USER_DELETED"),
                               PubEvent(Msg("data", NoCode, "CANCELLED", NoNum,
                                            "USER_DELETED"))>>)
       ELSE /\ dobj' = [dobj EXCEPT ![a] = db[a]]
            /\ pc' = [pc EXCEPT ![DelOf(a)] = "delete"]
            /\ UNCHANGED <<active_connections, analysis_subscriptions, job, lastUpd, rcv, lastRet, log>>
    /\ UNCHANGED <<chanClient, broken, db, sess, wstep, extOps, msgs, faults>>

\* delete_analysis, lines 221-231: db.delete and commit emit the DELETE alone
\* (the pending changes of a deleted instance are not flushed), then
\* analysis_deleted is broadcast
DDelete(a) ==
    /\ pc[DelOf(a)] = "delete"
    /\ db' = Restrict(db, DOMAIN db \ {a})
    /\ StartBroadcast(DelOf(a), active_connections, analysis_subscriptions,
                      Msg("analysis_deleted", a, dobj[a].status, dobj[a].progress,
                          dobj[a].error_code), "done", "error")
    /\ log' = Logged(DelOf(a),
                     <<Event("remove", dobj[a].status, dobj[a].progress, dobj[a].error_code),
                       Event("broadcast", dobj[a].status, dobj[a].progress, dobj[a].error_code)>>)
    /\ UNCHANGED <<chanClient, broken, sess, wstep, dobj, extOps, msgs, faults>>

\* ------------------------------------------------------------------ Init

Init ==
    /\ active_connections = <<>>
    /\ analysis_subscriptions = <<>>
    /\ pc = [t \in Tasks |->
               IF t \in ConnTasks THEN "new" ELSE IF t = ExtTask THEN "idle" ELSE "none"]
    /\ job = [t \in Tasks |-> IdleJob]
    /\ chanClient = [ch \in Channels |-> NoCode]
    /\ broken = {}
    /\ lastUpd = [ch \in Channels |-> [a \in Workloads |-> NoCode]]
    /\ lastRet = NoRet
    /\ db = <<>>
    /\ sess = [a \in Records |-> NoRow]
    /\ wstep = [a \in Records |-> 0]
    /\ dobj = [a \in Workloads |-> NoRow]
    /\ extOps = 0
    /\ msgs = 0
    /\ faults = 0
    /\ rcv = [ch \in Channels |-> <<>>]
    /\ log = [t \in WorkTasks \cup DelTasks |-> <<>>]

\* the registry driven by connections and external callers
NextReg ==
    \/ \E ch \in Channels, c \in Clients : Connect(ch, c)
    \/ \E ch \in Channels, c \in Clients, a \in Analyses : ConnectSubscribed(ch, c, a)
    \/ \E ch \in Channels, a \in Analyses : RecvSubscribe(ch, a)
    \/ \E ch \in Channels, a \in Analyses : RecvUnsubscribe(ch, a)
    \/ \E ch \in Channels : RecvPing(ch)
    \/ \E ch \in Channels : Disconnected(ch)
    \/ \E ch \in Channels : BreakChannel(ch)
    \/ \E a \in Analyses : ExtPublish(a)
    \/ ExtBroadcast
    \/ \E t \in Tasks : JobStep(t)

SpecReg == Init /\ [][NextReg]_vars

\* the registry driven through the WebSocket endpoint alone: connections
\* that open, send every kind of control message, break and close
NextProto ==
    \/ \E ch \in Channels, c \in Clients : Connect(ch, c)
    \/ \E ch \in Channels, c \in Clients, a \in Analyses : ConnectSubscribed(ch, c, a)
    \/ \E ch \in Channels, a \in Analyses : RecvSubscribe(ch, a)
    \/ \E ch \in Channels : RecvSubscribeNoId(ch)
    \/ \E ch \in Channels, a \in Analyses : RecvUnsubscribe(ch, a)
    \/ \E ch \in Channels : RecvUnsubscribeNoId(ch)
    \/ \E ch \in Channels : RecvPing(ch)
    \/ \E ch \in Channels : RecvStatus(ch)
    \/ \E ch \in Channels : RecvUnknown(ch)
    \/ \E ch \in Channels : RecvMalformed(ch)
    \/ \E ch \in Channels : RecvRaising(ch)
    \/ \E ch \in Channels : Disconnected(ch)
    \/ \E ch \in Channels : BreakChannel(ch)
    \/ \E t \in Tasks : JobStep(t)

SpecProto == Init /\ [][NextProto]_vars

\* the analysis lifecycle: start, workload and delete, with subscribers
\* connecting, breaking and leaving
Next ==
    \/ \E a \in Workloads : StartAnalysis(a)
    \/ \E a \in Workloads, image \in ImageRefs, model \in ModelRefs : StartRejected(a, image, model)
    \/ \E a \in Workloads : StartTrigger(a)
    \/ \E a \in Workloads : WGet(a)
    \/ \E a \in Workloads : WRefresh(a)
    \/ \E a \in Workloads : WCommit(a)
    \/ \E a \in Workloads : WStep(a)
    \/ \E a \in Workloads : WFail(a)
    \/ \E a \in Workloads : WComplete(a)
    \/ \E a \in Workloads : WHandlerGet(a)
    \/ \E a \in Workloads : WHandlerCommit(a)
    \/ \E a \in Workloads : DSelect(a)
    \/ \E a \in Workloads : DDelete(a)
    \/ \E ch \in Watchers, c \in Clients, a \in Workloads : ConnectSubscribed(ch, c, a)
    \/ \E ch \in Watchers : Disconnected(ch)
    \/ \E ch \in Watchers : BreakChannel(ch)
    \/ \E t \in Tasks : JobStep(t)

Spec == Init /\ [][Next]_vars

\* every step of a workload: the event loop resumes a task whose await is over
WorkNext(a) ==
    \/ WGet(a) \/ WRefresh(a) \/ WCommit(a) \/ WStep(a) \/ WFail(a) \/ WComplete(a)
    \/ WHandlerGet(a) \/ WHandlerCommit(a) \/ JobStep(Work(a))

FairSpec == Spec /\ \A a \in Workloads : WF_vars(WorkNext(a))

\* one analysis started by any caller, with a database that can fail and a
\* delete request, and nobody connected
NextSolo ==
    \/ \E a \in Workloads, req \in Requests : StartAnalysisBy(a, req)
    \/ \E a \in Workloads : WGet(a)
    \/ \E a \in Workloads : WRefresh(a)
    \/ \E a \in Workloads : WCommit(a)
    \/ \E a \in Workloads : WStep(a)
    \/ \E a \in Workloads : WFail(a)
    \/ \E a \in Workloads : WComplete(a)
    \/ \E a \in Workloads : WHandlerGet(a)
    \/ \E a \in Workloads : WHandlerCommit(a)
    \/ \E a \in Workloads : DSelect(a)
    \/ \E a \in Workloads : DDelete(a)

SpecSolo == Init /\ [][NextSolo]_vars

\* two analyses run side by side while one client is connected and pings;
\* one database call may fail
InitPair ==
    /\ active_connections = <<>>
    /\ analysis_subscriptions = <<>>
    /\ pc = [t \in Tasks |->
               IF t \in ConnTasks THEN "new" ELSE IF t = ExtTask THEN "idle" ELSE "none"]
    /\ job = [t \in Tasks |-> IdleJob]
    /\ chanClient = [ch \in Channels |-> NoCode]
    /\ broken = {}
    /\ lastUpd = [ch \in Channels |-> [a \in Workloads |-> NoCode]]
    /\ lastRet = NoRet
    /\ db = <<>>
    /\ sess = [a \in Records |-> NoRow]
    /\ wstep = [a \in Records |-> 0]
    /\ dobj = [a \in Workloads |-> NoRow]
    /\ extOps = 0
    /\ msgs = 0
    /\ faults = MaxFaults - 1
    /\ rcv = [ch \in Channels |-> <<>>]
    /\ log = [t \in WorkTasks \cup DelTasks |-> <<>>]

NextPair ==
    \/ \E a \in Records : StartAnalysis(a)
    \/ \E a \in Records : WGet(a)
    \/ \E a \in Records : WRefresh(a)
    \/ \E a \in Records : WCommit(a)
    \/ \E a \in Records : WStep(a)
    \/ \E a \in Records : WFail(a)
    \/ \E a \in Records : WComplete(a)
    \/ \E a \in Records : WHandlerGet(a)
    \/ \E a \in Records : WHandlerCommit(a)
    \/ \E ch \in Watchers : Connect(ch, "c1")
    \/ \E ch \in Watchers : RecvPing(ch)
    \/ \E t \in Tasks : JobStep(t)

SpecPair == InitPair /\ [][NextPair]_vars

\* the lifecycle followed by two subscribers that are connected from the
\* start (c1 on WebSocket 1, c2 on WebSocket 2, both with ?analysis_id) and
\* stay, with a database that does not fail
InitCrowd ==
    /\ active_connections = Put(Put(<<>>, "c1", 1), "c2", 2)
    /\ analysis_subscriptions =
          [a \in Workloads |-> SubscribeOp(SubscribeOp(<<>>, "c1", a), "c2", a)[a]]
    /\ pc = [t \in Tasks |->
               IF t \in ConnTasks THEN "loop" ELSE IF t = ExtTask THEN "idle" ELSE "none"]
    /\ job = [t \in Tasks |-> IdleJob]
    /\ chanClient = [ch \in Channels |-> IF ch = 1 THEN "c1" ELSE "c2"]
    /\ broken = {}
    /\ lastUpd = [ch \in Channels |-> [a \in Workloads |-> NoCode]]
    /\ lastRet = NoRet
    /\ db = <<>>
    /\ sess = [a \in Records |-> NoRow]
    /\ wstep = [a \in Records |-> 0]
    /\ dobj = [a \in Workloads |-> NoRow]
    /\ extOps = 0
    /\ msgs = 0
    /\ faults = MaxFaults
    /\ rcv = [ch \in Channels |-> <<>>]
    /\ log = [t \in WorkTasks \cup DelTasks |-> <<>>]

NextCrowd ==
    \/ \E a \in Workloads : StartAnalysis(a)
    \/ \E a \in Workloads : WGet(a)
    \/ \E a \in Workloads : WRefresh(a)
    \/ \E a \in Workloads : WCommit(a)
    \/ \E a \in Workloads : WStep(a)
    \/ \E a \in Workloads : WFail(a)
    \/ \E a \in Workloads : WComplete(a)
    \/ \E a \in Workloads : WHandlerGet(a)
    \/ \E a \in Workloads : WHandlerCommit(a)
    \/ \E a \in Workloads : DSelect(a)
    \/ \E a \in Workloads : DDelete(a)
    \/ \E t \in Tasks : JobStep(t)

SpecCrowd == InitCrowd /\ [][NextCrowd]_vars

\* ================================================================ claims
Range(seq) == {seq[i] : i \in 1..Len(seq)}
Ids(got) == {got[i].id : i \in 1..Len(got)}
Kept(a) == a \in DOMAIN db /\ a \in DOMAIN db'

\* the client is in neither the connection map nor any subscriber list
Absent(conns, subs, c) ==
    /\ ~Has(conns, c)
    /\ \A t \in DOMAIN subs : ~InList(subs[t], c)

StatusEdges ==
    {<<"PENDING", "ANALYZING">>, <<"ANALYZING", "COMPLETE">>, <<"ANALYZING", "FAILED">>,
     <<"PENDING", "CANCELLED">>, <<"ANALYZING", "CANCELLED">>}

StatusMoves(edges) ==
    \A a \in Workloads : Kept(a) =>
        /\ db'[a].status = db[a].status \/ <<db[a].status, db'[a].status>> \in edges
        /\ db[a].status \in Terminal => db'[a] = db[a]

\* C1 as claimed: the persisted status of a record changes only along
\* PENDING->ANALYZING, ANALYZING->COMPLETE, ANALYZING->FAILED, PENDING->CANCELLED
\* or ANALYZING->CANCELLED, and a record in a terminal status is never written again.
C1_AsClaimed == [][StatusMoves(StatusEdges)]_vars

\* C1, amended: the persisted status of a record changes only along the edges
\* above or PENDING->FAILED (the outer error handler, when the workload fails
\* before its first commit), and a record in a terminal status is never
\* written again.
C1_Theorem == [][StatusMoves(StatusEdges \cup {<<"PENDING", "FAILED">>})]_vars

C1_Witness ==
    \E a \in Workloads :
        /\ a \in DOMAIN db
        /\ pc[Work(a)] = "done"
        /\ db[a].status = "FAILED" /\ db[a].error_code = "SYSTEM_ERROR" /\ db[a].progress = 0

\* C2 as claimed: once an analysis_update with a terminal status was written
\* to a subscriber's WebSocket for an analysis, no later analysis_update for
\* that analysis written to it carries another status.
C2_Claim ==
    [][\A ch \in Channels, a \in Workloads :
          lastUpd[ch][a] \in Terminal => lastUpd'[ch][a] = lastUpd[ch][a]]_vars

Ended(a) == pc[Work(a)] \in {"done", "escaped"}

\* C3 as claimed: a workload that has ended, by returning or by an exception
\* leaving its error handler, has left its record in a terminal status, or
\* the record is gone; it never ends with the record PENDING or ANALYZING.
C3_Claim ==
    \A a \in Workloads : Ended(a) => a \notin DOMAIN db \/ db[a].status \in Terminal

\* C4: when send_personal_message, send_analysis_update or broadcast returns,
\* every client one of its sends failed for is in neither the connection map
\* nor any subscriber list.
C4_Theorem ==
    [][\A t \in Tasks :
          (pc[t] = "call" /\ pc'[t] # "call" /\ ~lastRet'.raised) =>
              \A i \in 1..Len(job[t].disc) :
                  Absent(active_connections', analysis_subscriptions', job[t].disc[i])]_vars

C4_Witness == lastRet.op = "pub" /\ lastRet.failed /\ ~lastRet.raised

\* C5 as claimed: the subscription map holds no topic with an empty
\* subscriber list.
C5_Claim == \A t \in DOMAIN analysis_subscriptions : analysis_subscriptions[t] # <<>>

\* C6: a publish writes the update, tagged with its topic, only to clients
\* that were in the topic's subscriber list when it was called, at most once
\* each; every subscriber of that list it has passed was written to, or its
\* send failed, or it was not connected at its turn.
C6_Accounting ==
    \A t \in Tasks : job[t].op = "pub" =>
        LET j == job[t] IN
        /\ j.msg.type = "analysis_update" /\ j.msg.aid = j.topic
        /\ Ids(j.got) \subseteq j.start
        /\ \A i, k \in 1..Len(j.got) : i # k => j.got[i].id # j.got[k].id
        /\ {j.snap[i] : i \in 1..(j.pos - 1)} = Ids(j.got) \cup Range(j.disc) \cup Range(j.skipped)
        /\ Len(j.got) + Len(j.disc) + Len(j.skipped) = j.pos - 1
        /\ Range(j.snap) = j.start

C6_Step ==
    /\ \A t \in Tasks : job'[t].op = "pub" =>
          LET j0 == job[t]
              j1 == job'[t]
          IN  /\ \A i \in (Len(j0.skipped) + 1)..Len(j1.skipped) :
                    ~Has(active_connections, j1.skipped[i])
              /\ \A i \in (Len(j0.disc) + 1)..Len(j1.disc) :
                    /\ Has(active_connections, j1.disc[i])
                    /\ SendFails(Ws(active_connections, j1.disc[i]))
              /\ \A i \in (Len(j0.got) + 1)..Len(j1.got) :
                    /\ Has(active_connections, j1.got[i].id)
                    /\ j1.got[i].ws = Ws(active_connections, j1.got[i].id)
                    /\ ~SendFails(j1.got[i].ws)
                    /\ j1.topic \in Workloads => lastUpd'[j1.got[i].ws][j1.topic] = j1.msg.status
    /\ \A ch \in Channels, a \in Workloads :
          lastUpd'[ch][a] # lastUpd[ch][a] =>
              \E t \in Tasks :
                  /\ job'[t].op = "pub" /\ job'[t].topic = a
                  /\ Len(job'[t].got) = Len(job[t].got) + 1
                  /\ job'[t].got[Len(job'[t].got)].ws = ch

C6_Theorem == []C6_Accounting /\ [][C6_Step]_vars

C6_Witness ==
    \E t \in Tasks :
        /\ job[t].op = "pub"
        /\ job[t].pos > Len(job[t].snap)
        /\ Len(job[t].got) >= 1
        /\ \E c \in Keys(active_connections) : c \notin job[t].start

\* C7 as claimed: a broadcast that ends has attempted exactly one send to
\* every connection registered when it started, and unregisters exactly the
\* connections whose send failed.
C7_Claim ==
    [][\A t \in Tasks :
          (pc[t] = "call" /\ job[t].op = "bcast" /\ pc'[t] # "call") =>
              /\ Ids(job[t].got) \cup Range(job[t].disc) = job[t].start
              /\ Len(job[t].got) + Len(job[t].disc) = Cardinality(job[t].start)
              /\ Keys(active_connections') = Keys(active_connections) \ Range(job[t].disc)]_vars

\* C8 as claimed: a broadcast completes without raising, whatever other
\* tasks register or unregister while it is suspended in a send.
C8_Claim == ~(lastRet.op = "bcast" /\ lastRet.raised)

\* C9: the persisted progress of a record stays within 0..100, and does not
\* decrease across a write that finds and leaves the record PENDING or ANALYZING.
C9_Theorem ==
    /\ [](\A a \in DOMAIN db : db[a].progress >= 0 /\ db[a].progress <= 100)
    /\ [][\A a \in Workloads :
             (Kept(a) /\ db[a].status \in Active /\ db'[a].status \in Active) =>
                 db'[a].progress >= db[a].progress]_vars

C9_Witness ==
    \E a \in Workloads :
        a \in DOMAIN db /\ db[a].status = "ANALYZING" /\ db[a].progress = 95

\* the commits and publishes of a run that meets no failure, after the two
\* entries of start_analysis
CleanRun ==
    <<Event("write", "ANALYZING", 5, NoCode), Event("publish", "ANALYZING", 5, NoCode),
      Event("write", "ANALYZING", 20, NoCode), Event("publish", "ANALYZING", 20, NoCode),
      Event("write", "ANALYZING", 40, NoCode), Event("publish", "ANALYZING", 40, NoCode),
      Event("write", "ANALYZING", 60, NoCode), Event("publish", "ANALYZING", 60, NoCode),
      Event("write", "ANALYZING", 80, NoCode), Event("publish", "ANALYZING", 80, NoCode),
      Event("write", "ANALYZING", 95, NoCode), Event("publish", "ANALYZING", 95, NoCode),
      Event("write", "COMPLETE", 100, NoCode), Event("publish", "COMPLETE", 100, NoCode)>>

CleanUpdates ==
    <<<<"ANALYZING", 5>>, <<"ANALYZING", 20>>, <<"ANALYZING", 40>>, <<"ANALYZING", 60>>,
      <<"ANALYZING", 80>>, <<"ANALYZING", 95>>, <<"COMPLETE", 100>>>>

IsPrefix(p, q) == Len(p) <= Len(q) /\ SubSeq(q, 1, Len(p)) = p

\* what the workload itself logged, after the entries of start_analysis
RunLog(a) == SubSeq(log[Work(a)], 3, Len(log[Work(a)]))

IsUpdate(m) == m.type = "analysis_update"

\* the (status, progress) pairs of the analysis_update messages read on ch
UpdatesOn(ch) ==
    LET u == SelectSeq(rcv[ch], IsUpdate)
    IN  [i \in 1..Len(u) |-> <<u[i].status, u[i].progress>>]

Completed(a) == pc[Work(a)] = "done" /\ a \in DOMAIN db /\ db[a].status = "COMPLETE"

\* ch was subscribed from before the first update until now, and no delete ran
Throughout(ch, a) ==
    /\ pc[ConnOf(ch)] = "loop" /\ ch \notin broken
    /\ pc[DelOf(a)] = "none"
    /\ UpdatesOn(ch) # <<>> /\ UpdatesOn(ch)[1] = CleanUpdates[1]

\* C11: a run that meets no failure commits (ANALYZING,5), (ANALYZING,20), ...,
\* (ANALYZING,95), (COMPLETE,100) in this order and calls publish once after
\* each commit with the same status and progress; a client subscribed
\* throughout reads these seven updates in this order.
C11_Order ==
    \A a \in Workloads :
        /\ (\A i \in 1..Len(RunLog(a)) : RunLog(a)[i].status # "FAILED") =>
               IsPrefix(RunLog(a), CleanRun)
        /\ Completed(a) => RunLog(a) = CleanRun
        /\ \A ch \in Channels :
               (Completed(a) /\ Throughout(ch, a)) => UpdatesOn(ch) = CleanUpdates

C11_Witness ==
    \E a \in Workloads, ch \in Channels :
        Completed(a) /\ Throughout(ch, a) /\ Len(rcv[ch]) >= 7 /\ faults = 0

\* C12 as claimed: when the workload has raised and its record exists and is
\* PENDING or ANALYZING, the error handler does not let an exception leave
\* the workload, and it ends by committing FAILED with SYSTEM_ERROR and
\* publishing an update with that status and code.
C12_Claim ==
    [][\A a \in Workloads :
          (a \in DOMAIN db /\ db[a].status \in Active /\ pc[Work(a)] \in {"hget", "hcommit"}) =>
              /\ pc'[Work(a)] # "escaped"
              /\ (pc[Work(a)] = "hcommit" /\ pc'[Work(a)] # "hcommit") =>
                     /\ a \in DOMAIN db'
                     /\ db'[a].status = "FAILED" /\ db'[a].error_code = "SYSTEM_ERROR"
                     /\ log'[Work(a)][Len(log'[Work(a)])] =
                            Event("publish", "FAILED", NoNum, "SYSTEM_ERROR")]_vars

\* C13: a publish made by a workload or by delete never raises, at its first
\* send or at a later one; resuming after a send, failed or not, it changes
\* no record, no session instance and no step count, and it returns to its
\* caller at the place it returns to after a pass without failures.
C13_Theorem ==
    [][\A t \in WorkTasks \cup DelTasks :
          /\ (pc[t] = "call" /\ job[t].op = "pub" /\ job'[t] # job[t]) =>
                /\ db' = db /\ sess' = sess /\ wstep' = wstep /\ dobj' = dobj /\ log' = log
                /\ pc'[t] # "call" =>
                      /\ pc'[t] = job[t].ret
                      /\ lastRet'.op = "pub" /\ ~lastRet'.raised
                      /\ lastRet'.failed = (job[t].disc # <<>>)
          /\ (log'[t] # log[t] /\ log'[t][Len(log'[t])].ev = "publish") =>
                \/ pc'[t] = "call" /\ job'[t].op = "pub"
                \/ lastRet'.op = "pub" /\ ~lastRet'.raised]_vars

C13_Witness ==
    \E a \in Workloads, ch \in Channels :
        /\ Completed(a) /\ RunLog(a) = CleanRun
        /\ ch \in broken /\ pc[ConnOf(ch)] = "loop"
        /\ ~Has(active_connections, chanClient[ch])
        /\ UpdatesOn(ch) # <<>>

\* the statuses that commits have stored on the record of a so far
Stored(a) ==
    {log[Work(a)][i].status : i \in {k \in 1..Len(log[Work(a)]) : log[Work(a)][k].ev = "write"}}

\* C14 as claimed: every analysis_update read on a WebSocket carries a status
\* that a commit had stored on the record of its analysis before it was sent.
C14_Claim ==
    \A ch \in Channels : \A i \in 1..Len(rcv[ch]) :
        IsUpdate(rcv[ch][i]) => rcv[ch][i].status \in Stored(rcv[ch][i].aid)

\* C15 as claimed: start_analysis for a valid image and an active model
\* commits exactly one new record, PENDING with progress 0, then makes one
\* new_analysis_started broadcast that attempts every connection registered
\* at that moment, and returns the record to its caller.
C15_Claim ==
    [][\A a \in Workloads :
          /\ (log[Work(a)] = <<>> /\ log'[Work(a)] # <<>>) =>
                /\ a \notin DOMAIN db /\ DOMAIN db' = DOMAIN db \cup {a}
                /\ db'[a].status = "PENDING" /\ db'[a].progress = 0
                /\ log'[Work(a)] = <<Event("write", "PENDING", 0, NoCode),
                                     Event("broadcast", "PENDING", 0, NoCode)>>
                /\ pc'[Work(a)] \in {"call", "get"}
          /\ (pc[Work(a)] = "call" /\ job[Work(a)].op = "bcast" /\ pc'[Work(a)] # "call") =>
                /\ pc'[Work(a)] = "get"
                /\ Ids(job[Work(a)].got) \cup Range(job[Work(a)].disc) = job[Work(a)].start
                /\ job[Work(a)].msg.type = "new_analysis_started"]_vars

\* C16: a start_analysis that fails its validation creates no record, makes
\* no broadcast and schedules no workload, then or later: the table, the
\* registry, what the WebSockets have read and the log are as they were.
C16_Theorem ==
    [][\A a \in Workloads :
          /\ (pc[Work(a)] = "none" /\ pc'[Work(a)] = "rejected") =>
                /\ db' = db /\ rcv' = rcv /\ log' = log /\ job' = job
                /\ active_connections' = active_connections
                /\ analysis_subscriptions' = analysis_subscriptions
          /\ pc[Work(a)] = "rejected" =>
                /\ pc'[Work(a)] = "rejected" /\ job'[Work(a)] = IdleJob
                /\ a \notin DOMAIN db' /\ log'[Work(a)] = <<>>]_vars

C16_Witness ==
    \E a \in Workloads, ch \in Channels :
        pc[Work(a)] = "rejected" /\ pc[ConnOf(ch)] = "loop" /\ pc[DelOf(a)] = "done"

\* C17 as claimed: a start request for a valid image and an active model
\* returns with the new record committed in status PENDING, and one workload
\* run is scheduled for it once the request has returned.
C17_Claim ==
    [][\A a \in Workloads :
          /\ (pc[Work(a)] = "none" /\ pc'[Work(a)] \notin {"none", "rejected"}) =>
                /\ a \in DOMAIN db' /\ db'[a].status = "PENDING"
                /\ pc'[Work(a)] \in {"call", "get"}
          /\ (pc[Work(a)] = "call" /\ job[Work(a)].op = "bcast" /\ pc'[Work(a)] # "call") =>
                pc'[Work(a)] = "get"]_vars

\* the kinds of the entries of a log, in order
Kinds(l) == [i \in 1..Len(l) |-> l[i].ev]

\* C18 as claimed: delete of a PENDING or ANALYZING record marks it CANCELLED
\* with USER_DELETED, publishes one CANCELLED update to the subscribers of
\* its id, removes the record and broadcasts analysis_deleted to every
\* registered connection, in this order; delete of a terminal record only
\* removes and broadcasts; delete of an unknown id changes nothing.
C18_Claim ==
    [][\A a \in Workloads :
          LET t == DelOf(a) IN
          /\ IsPrefix(Kinds(log'[t]), <<"cancel", "publish", "remove", "broadcast">>)
                \/ IsPrefix(Kinds(log'[t]), <<"remove", "broadcast">>)
          /\ (pc[t] = "none" /\ pc'[t] # "none") =>
                IF a \notin DOMAIN db
                THEN /\ pc'[t] = "done" /\ log'[t] = <<>>
                     /\ db' = db /\ rcv' = rcv /\ job' = job
                     /\ active_connections' = active_connections
                     /\ analysis_subscriptions' = analysis_subscriptions
                ELSE IF db[a].status \in Active
                THEN /\ log'[t] = <<Event("cancel", "CANCELLED", db[a].progress, "USER_DELETED"),
                                    Event("publish", "CANCELLED", NoNum, "USER_DELETED")>>
                     /\ dobj'[a].status = "CANCELLED" /\ dobj'[a].error_code = "USER_DELETED"
                     /\ pc'[t] = "call" =>
                            /\ job'[t].op = "pub" /\ job'[t].topic = a
                            /\ job'[t].msg.status = "CANCELLED"
                ELSE log'[t] = <<>> /\ rcv' = rcv /\ pc'[t] = "delete"
          /\ (pc[t] = "delete" /\ pc'[t] # "delete") =>
                /\ a \notin DOMAIN db'
                /\ Kinds(SubSeq(log'[t], Len(log'[t]) - 1, Len(log'[t]))) = <<"remove", "broadcast">>
          /\ (pc[t] = "call" /\ job[t].op = "bcast" /\ pc'[t] # "call") =>
                /\ pc'[t] = "done"
                /\ job[t].msg.type = "analysis_deleted"
                /\ Ids(job[t].got) \cup Range(job[t].disc) = job[t].start]_vars

Removed(a) == \E i \in 1..Len(log[DelOf(a)]) : log[DelOf(a)][i].ev = "remove"

\* the analysis_update messages for a among the notifications read on ch
UpdatesFor(r, a) == {i \in 1..Len(r) : r[i].type = "analysis_update" /\ r[i].aid = a}

\* C19 as claimed: once delete has removed a record it stays absent and the
\* workload and its error handler commit nothing more for it; once the
\* analysis_deleted broadcast has been made, no analysis_update for the id
\* is written to a WebSocket any more.
C19_Claim ==
    [][\A a \in Workloads : Removed(a) =>
          /\ a \notin DOMAIN db /\ a \notin DOMAIN db'
          /\ Stored(a)' = Stored(a)
          /\ pc[DelOf(a)] \in {"done", "error"} =>
                \A ch \in Channels : UpdatesFor(rcv'[ch], a) = UpdatesFor(rcv[ch], a)]_vars

\* the clients that were subscribed when a publish started and that it wrote to
Reached(j) == {j.got[i].id : i \in 1..Len(j.got)}

\* a client that is connected on a WebSocket whose peer is there
Reachable(c) ==
    /\ Has(active_connections, c)
    /\ \E ch \in Channels : chanClient[ch] = c /\ ~SendFails(ch)

\* the CANCELLED update of a cancel has been offered to every subscriber
CancelDelivered(a) ==
    LET t == DelOf(a) IN
    (pc[t] = "call" /\ job[t].op = "pub" /\ job[t].msg.status = "CANCELLED"
        /\ pc'[t] # "call")
      => \A c \in job[t].start : Reachable(c) => c \in Reached(job[t])

\* C20 as claimed: the cancel of a record that is ANALYZING leaves the record
\* persisted with status CANCELLED and error code USER_DELETED by the time
\* its update is published, and the CANCELLED update is delivered to every
\* subscriber of the analysis id.
C20_Claim ==
    [][\A a \in Workloads :
          /\ (pc[DelOf(a)] = "none" /\ pc'[DelOf(a)] # "none"
                /\ a \in DOMAIN db /\ db[a].status = "ANALYZING") =>
                /\ a \in DOMAIN db'
                /\ db'[a].status = "CANCELLED"
                /\ db'[a].error_code = "USER_DELETED"
          /\ CancelDelivered(a)]_vars

\* a delete request that found its record in a terminal status: nothing was
\* cancelled, the DELETE is next
FoundTerminal(a) ==
    pc[DelOf(a)] = "delete" /\ log[DelOf(a)] = <<>> /\ dobj[a].status \in Terminal

C22_Theorem ==
    \A a \in DOMAIN db :
        LET row == db[a] IN
        /\ (row.results_payload # NoResults \/ row.confidence_score # NoNum
               \/ row.processing_time_seconds # NoNum) => row.status = "COMPLETE"
        /\ (row.error_code # NoCode \/ row.error_message # NoCode) =>
               row.status \in {"FAILED", "CANCELLED"}
        /\ ~(row.results_payload # NoResults /\ row.error_code # NoCode)

\* a COMPLETE record with its results, and a record the error handler
\* marked FAILED after a commit of the workload had raised
C22_Witness ==
    \E a \in DOMAIN db :
        \/ db[a].status = "COMPLETE" /\ db[a].results_payload # NoResults
        \/ /\ db[a].status = "FAILED" /\ db[a].error_code = "SYSTEM_ERROR"
           /\ db[a].progress >= 5

\* C23: a stored COMPLETE record has a confidence_score between 0 and 1
\* (0..100 hundredths) that is the confidence_score of its results payload,
\* whatever the type of its model.
C23_Theorem ==
    \A a \in DOMAIN db :
        db[a].status = "COMPLETE" =>
            /\ db[a].confidence_score >= 0 /\ db[a].confidence_score <= 100
            /\ db[a].results_payload.model_type \in model_types
            /\ db[a].confidence_score = db[a].results_payload.confidence_score

\* a COMPLETE record of a model whose type the generator has no branch for
C23_Witness ==
    \E a \in DOMAIN db :
        /\ db[a].status = "COMPLETE"
        /\ db[a].results_payload.model_type = "other"
        /\ db[a].confidence_score = ConfHigh

\* the subscribers of topic t, none if the map has no entry for it
ListOf(subs, t) == IF t \in DOMAIN subs THEN subs[t] ELSE <<>>

\* the receive loop of ch ends with WebSocketDisconnect and calls disconnect
Leaves(ch) == pc[ConnOf(ch)] = "loop" /\ pc'[ConnOf(ch)] = "closed"

\* what disconnect(c) leaves: c is gone from the connection map and from
\* every subscriber list, no topic is left without subscribers, the other
\* clients are registered and subscribed as before, and a second call
\* changes nothing
Unregistered(c) ==
    /\ Absent(active_connections', analysis_subscriptions', c)
    /\ \A t \in DOMAIN analysis_subscriptions' : analysis_subscriptions'[t] # <<>>
    /\ \A d \in Clients \ {c} :
          /\ Has(active_connections', d) <=> Has(active_connections, d)
          /\ Has(active_connections, d) =>
                Ws(active_connections', d) = Ws(active_connections, d)
          /\ \A t \in Analyses :
                InList(ListOf(analysis_subscriptions', t), d)
                    <=> InList(ListOf(analysis_subscriptions, t), d)
    /\ Unregister(active_connections', c) = active_connections'
    /\ Prune(analysis_subscriptions', c) = analysis_subscriptions'

\* C24 as claimed: the disconnect(c) the receive loop makes when its channel
\* disconnects removes c from the connection map and from every subscriber
\* list and drops the topics left empty, leaves the other clients as they
\* were, changes nothing when repeated, and for an id that is neither
\* registered nor subscribed changes nothing at all.
C24_Claim ==
    [][\A ch \in Channels : Leaves(ch) =>
          /\ Unregistered(chanClient[ch])
          /\ Absent(active_connections, analysis_subscriptions, chanClient[ch]) =>
                /\ active_connections' = active_connections
                /\ analysis_subscriptions' = analysis_subscriptions]_vars

\* no entry of the sequence stands in it twice
NoRepeats(seq) == \A i, k \in 1..Len(seq) : i # k => seq[i] # seq[k]

\* subscribe_to_analysis(c, a) applied to the registry as it is: c is in
\* the list of a, a second call changes nothing more, and no other client
\* and no other topic is touched
SubscribeIsSetInsert(c, a) ==
    LET subs == analysis_subscriptions
        once == SubscribeOp(subs, c, a)
    IN  /\ InList(once[a], c)
        /\ NoRepeats(once[a])
        /\ SubscribeOp(once, c, a) = once
        /\ DOMAIN once = DOMAIN subs \cup {a}
        /\ \A t \in DOMAIN subs : t # a => once[t] = subs[t]
        /\ \A d \in Clients \ {c} : InList(once[a], d) <=> InList(ListOf(subs, a), d)

\* C25: subscribing has set semantics: a client is in a subscriber list at
\* most once, subscribing it again changes nothing, a publish sends a
\* subscriber at most one copy, and subscribing one client to one topic
\* leaves the other clients and the other topics as they were.
C25_Theorem ==
    /\ \A t \in DOMAIN analysis_subscriptions : NoRepeats(analysis_subscriptions[t])
    /\ \A c \in Clients, a \in Analyses : SubscribeIsSetInsert(c, a)
    /\ \A t \in Tasks : job[t].op = "pub" =>
          /\ NoRepeats(job[t].snap)
          /\ \A i, k \in 1..Len(job[t].got) : i # k => job[t].got[i].id # job[t].got[k].id

\* the same client id has connected twice with ?analysis_id=a, both
\* confirmations are being sent, and a publish for a has written its update
\* to the one subscriber
C25_Witness ==
    \E c \in Clients, a \in Analyses :
        /\ \A ch \in Channels :
              /\ chanClient[ch] = c /\ pc[ConnOf(ch)] = "call"
              /\ job[ConnOf(ch)].msg.type = "subscription_confirmed"
              /\ job[ConnOf(ch)].msg.aid = a
        /\ msgs = 0
        /\ analysis_subscriptions[a] = <<c>>
        /\ job[ExtTask].op = "pub" /\ job[ExtTask].topic = a
        /\ Ids(job[ExtTask].got) = {c} /\ Len(job[ExtTask].got) = 1

\* C26: a publish for a topic without subscribers (no entry in the map, or
\* an entry whose list is empty) sends nothing, raises nothing and leaves
\* the connection map and the subscription map as they are: a publish that
\* reaches a send has a subscriber, and one that returns at once has
\* changed nothing.
C26_Theorem ==
    [][extOps' = extOps + 1 =>
          IF pc'[ExtTask] = "call"
          THEN job'[ExtTask].op = "pub" =>
                   ListOf(analysis_subscriptions, job'[ExtTask].topic) # <<>>
          ELSE lastRet'.op = "pub" =>
                   /\ ~lastRet'.raised /\ ~lastRet'.failed
                   /\ active_connections' = active_connections
                   /\ analysis_subscriptions' = analysis_subscriptions
                   /\ rcv' = rcv /\ lastUpd' = lastUpd]_vars

\* the one publish of the run has returned, nothing was ever written for
\* a1, and the only topic of the map is a1 with an empty subscriber list
C26_Witness ==
    /\ extOps = 1 /\ pc[ExtTask] = "idle" /\ lastRet.op = "pub"
    /\ DOMAIN analysis_subscriptions = {"a1"} /\ analysis_subscriptions["a1"] = <<>>
    /\ Keys(active_connections) # {}
    /\ broken = {}
    /\ \A ch \in Channels : rcv[ch] = <<>>

\* the handler of task t is sending a reply of the given type to client c:
\* the send_text on the socket registered for c has been made
RepliedWith(t, c, type, aid) ==
    /\ pc'[t] = "call" /\ job'[t].op = "personal" /\ job'[t].topic = c
    /\ job'[t].msg.type = type /\ job'[t].msg.aid = aid
    /\ Ids(job'[t].got) \cup Range(job'[t].disc) = {c}

\* C27 as claimed: a subscribe message with an analysis_id puts the sender
\* in the subscriber list of that id and is answered with
\* subscription_confirmed; one without analysis_id is answered with an
\* error and leaves the subscription map as it is.  (A sender whose own
\* peer is gone cannot be answered.)
C27_Claim ==
    [][\A ch \in Channels :
          LET t == ConnOf(ch)
              c == chanClient[ch]
          IN  /\ \A a \in Analyses : RecvSubscribe(ch, a) =>
                    /\ InList(ListOf(analysis_subscriptions', a), c)
                    /\ ~SendFails(ch) => RepliedWith(t, c, "subscription_confirmed", a)
              /\ RecvSubscribeNoId(ch) =>
                    /\ analysis_subscriptions' = analysis_subscriptions
                    /\ ~SendFails(ch) => RepliedWith(t, c, "error", NoCode)]_vars

\* C28 as claimed: a payload that cannot be decoded, or a decoded message
\* whose handling raises, is answered with an error reply; while it is
\* handled the sender stays registered and the subscription map stays as it
\* is, and the receive loop then waits for the next message.  (A sender
\* whose own peer is gone cannot be answered and is unregistered.)
C28_Claim ==
    [][\A ch \in Channels :
          LET t == ConnOf(ch)
              c == chanClient[ch]
              kept == /\ active_connections' = active_connections
                      /\ analysis_subscriptions' = analysis_subscriptions
          IN  /\ (RecvMalformed(ch) \/ RecvRaising(ch)) =>
                    /\ pc'[t] \in {"call", "loop"}
                    /\ ~SendFails(ch) => (kept /\ RepliedWith(t, c, "error", NoCode))
              /\ (pc[t] = "call" /\ job[t].msg.type = "error" /\ JobStep(t)) =>
                    /\ pc'[t] = "loop"
                    /\ ~SendFails(ch) => (kept /\ Has(active_connections', c))]_vars

\* C29 as claimed: an unsubscribe message with an analysis_id, whether or
\* not the sender is subscribed to it, leaves the sender out of that id's
\* subscriber list, keeps the other subscribers of the id in their order
\* and every other id's list as it was, raises nothing, and is answered
\* with unsubscription_confirmed.  (A sender whose own peer is gone cannot
\* be answered.)
C29_Claim ==
    [][\A ch \in Channels : \A a \in Analyses :
          LET t == ConnOf(ch)
              c == chanClient[ch]
          IN  RecvUnsubscribe(ch, a) =>
                /\ ListOf(analysis_subscriptions', a) =
                       SelectSeq(ListOf(analysis_subscriptions, a), LAMBDA x : x # c)
                /\ \A b \in Analyses \ {a} :
                       ListOf(analysis_subscriptions', b) = ListOf(analysis_subscriptions, b)
                /\ active_connections' = active_connections
                /\ pc'[t] \in {"call", "loop"}
                /\ ~SendFails(ch) => RepliedWith(t, c, "unsubscription_confirmed", a)]_vars

\* what the statistics of the registry as it stands should say: as many
\* connections as registered ids, exactly those ids, and as many active
\* topics as ids with a subscriber
StatsAreExact ==
    LET stats == get_connection_stats(active_connections, analysis_subscriptions)
    IN  /\ stats.total_connections = Cardinality(Keys(active_connections))
        /\ Len(stats.clients) = stats.total_connections
        /\ Range(stats.clients) = Keys(active_connections)
        /\ stats.active_subscriptions =
              Cardinality({a \in Analyses : ListOf(analysis_subscriptions, a) # <<>>})

\* C30 as claimed: reading the statistics changes neither map, and in
\* every reachable state the statistics give the number of registered
\* connections, the list of exactly the registered ids, and the number of
\* topics that have at least one subscriber.
C30_Claim ==
    /\ []StatsAreExact
    /\ [][\A ch \in Channels : RecvStatus(ch) =>
              /\ active_connections' = active_connections
              /\ analysis_subscriptions' = analysis_subscriptions]_vars

\* the WebSocket that registered last under client id c
Latest(cc, p, c) ==
    LET opened == {k \in Channels : cc[k] = c /\ p[ConnOf(k)] # "new"}
    IN  IF opened = {} THEN 0 ELSE CHOOSE k \in opened : \A m \in opened : m <= k

\* the endpoint registers ch under an id that is registered already
Reregisters(ch, c) ==
    /\ Has(active_connections, c)
    /\ pc[ConnOf(ch)] = "new" /\ pc'[ConnOf(ch)] # "new" /\ chanClient'[ch] = c

\* C31: registering an id that is registered already raises nothing and
\* replaces the stored WebSocket: the number of connections is the same, the
\* other ids keep their WebSockets, every subscriber list keeps its members,
\* and every message written for an id from then on is written to the
\* WebSocket that registered last under it, never to an earlier one.
C31_Theorem ==
    [][/\ chanClient' # chanClient =>
            \A ch \in Channels, c \in Clients : Reregisters(ch, c) =>
              /\ pc'[ConnOf(ch)] \in {"loop", "call"}
              /\ Ws(active_connections', c) = ch
              /\ Size(active_connections') = Size(active_connections)
              /\ \A d \in Clients \ {c} :
                    /\ Has(active_connections', d) <=> Has(active_connections, d)
                    /\ Has(active_connections, d) =>
                          Ws(active_connections', d) = Ws(active_connections, d)
              /\ \A a \in Analyses : \A d \in Clients :
                    InList(ListOf(analysis_subscriptions, a), d) =>
                        InList(ListOf(analysis_subscriptions', a), d)
       /\ \A t \in ConnTasks \cup {ExtTask} :
              (job' # job /\ job'[t].got # job[t].got /\ job'[t].got # <<>>) =>
                  LET sent == job'[t].got[Len(job'[t].got)]
                  IN  sent.ws = Latest(chanClient', pc', sent.id)]_vars

\* a message is written to the second WebSocket registered under c1 while
\* the first one is still in its receive loop
C31_Witness ==
    /\ chanClient[1] = "c1" /\ chanClient[2] = "c1"
    /\ pc[ConnOf(1)] = "loop"
    /\ pc[ExtTask] = "call"
    /\ \E i \in 1..Len(job[ExtTask].got) : job[ExtTask].got[i] = [id |-> "c1", ws |-> 2]

\* who asked for the analysis of what with which model
Identity(row) == <<row.requested_by, row.image_id, row.ai_model_id>>

\* C32: requested_by, image_id and ai_model_id of a record are fixed when it
\* is created: no step changes them in the table, and the instance a
\* workload, its error handler or a delete request works on, cancelled or
\* not, carries the values of the record.
C32_Theorem ==
    [][\A a \in Workloads : a \in DOMAIN db' =>
          /\ a \in DOMAIN db => Identity(db'[a]) = Identity(db[a])
          /\ sess'[a].status # "none" => Identity(sess'[a]) = Identity(db'[a])
          /\ dobj'[a].status # "none" => Identity(dobj'[a]) = Identity(db'[a])]_vars

\* a record asked for by u1 was cancelled on the instance of a delete
\* request and then set to FAILED by the error handler of its workload
C32_Witness ==
    \E a \in Workloads :
        /\ a \in DOMAIN db
        /\ Identity(db[a]) = <<"u1", "img2", "m2">>
        /\ db[a].status = "FAILED" /\ db[a].error_code = "SYSTEM_ERROR"
        /\ dobj[a].status = "CANCELLED"

\* the places where a workload waits to be resumed
Resumable == {"get", "refresh", "commit", "sleep", "hget", "hcommit", "call"}

\* while a workload sleeps, any other workload that waits to be resumed
\* can be, and a receive loop can take a message
FreeAtSleep ==
    \A a \in Records : pc[Work(a)] = "sleep" =>
        /\ \A b \in Records \ {a} : pc[Work(b)] \in Resumable => ENABLED WorkNext(b)
        /\ \A ch \in Watchers :
              (pc[ConnOf(ch)] = "loop" /\ msgs < MaxMsgs) => ENABLED RecvPing(ch)

\* C33: workloads of different analyses interleave at their sleeps: while
\* one sleeps, the other workloads and the receive loops can take steps,
\* and a step of the workload of a changes no other record and no other
\* workload's session instance.
C33_Theorem ==
    /\ []FreeAtSleep
    /\ [][\A a \in Records : WorkNext(a) =>
              \A b \in Records \ {a} :
                  /\ b \in DOMAIN db' <=> b \in DOMAIN db
                  /\ b \in DOMAIN db => db'[b] = db[b]
                  /\ sess'[b] = sess[b]]_vars

\* both workloads sleep, at different progress, while a client that has
\* sent its ping waits in its receive loop
C33_Witness ==
    /\ pc[Work("a1")] = "sleep" /\ pc[Work("a2")] = "sleep"
    /\ "a1" \in DOMAIN db /\ "a2" \in DOMAIN db
    /\ db["a1"].progress = 20 /\ db["a2"].progress = 60
    /\ \E ch \in Watchers : pc[ConnOf(ch)] = "loop" /\ msgs > 0

\* the workload of a has no instance and there is no record to load
NothingToLoad(a) ==
    /\ pc[Work(a)] \in {"get", "hget"}
    /\ a \notin DOMAIN db
    /\ sess[a].status = "none"

\* C34: a workload that finds no record under its analysis id ends: from
\* there on it makes no commit and no call of the manager, nothing is
\* written to the table or to a WebSocket by it, and it stops.
C34_Theorem ==
    [][\A a \in Workloads :
          (NothingToLoad(a) /\ pc'[Work(a)] # pc[Work(a)]) =>
              /\ pc'[Work(a)] \in {"done", "hget", "escaped"}
              /\ pc[Work(a)] = "get" /\ faults' = faults => pc'[Work(a)] = "done"
              /\ log'[Work(a)] = log[Work(a)]
              /\ db' = db /\ rcv' = rcv /\ job'[Work(a)] = job[Work(a)]]_vars

\* the record was deleted before its workload ran: the workload is over
\* and has neither committed nor published
C34_Witness ==
    \E a \in Workloads :
        /\ pc[Work(a)] = "done" /\ pc[DelOf(a)] = "done" /\ a \notin DOMAIN db
        /\ wstep[a] = 0 /\ sess[a].status = "none" /\ faults = 0
        /\ log[Work(a)] = <<Event("write", "PENDING", 0, NoCode),
                            Event("broadcast", "PENDING", 0, NoCode)>>
        /\ \E ch \in Watchers : Len(rcv[ch]) > 0

\* the receive loop of ch takes a message whose handling is one call of
\* send_personal_message and nothing else
OnlyReplies(ch) ==
    \/ RecvPing(ch) \/ RecvStatus(ch) \/ RecvUnknown(ch)
    \/ RecvSubscribeNoId(ch) \/ RecvMalformed(ch) \/ RecvRaising(ch)

\* C35: send_personal_message for an id that is not registered sends
\* nothing, raises nothing and changes neither map; for a registered id
\* whose send_text raises, it returns to its caller without raising.
C35_Theorem ==
    [][/\ \A ch \in Channels :
              (OnlyReplies(ch) /\ ~Has(active_connections, chanClient[ch])) =>
                  /\ pc'[ConnOf(ch)] = "loop" /\ job'[ConnOf(ch)] = IdleJob
                  /\ lastRet' = [op |-> "personal", failed |-> FALSE, raised |-> FALSE]
                  /\ active_connections' = active_connections
                  /\ analysis_subscriptions' = analysis_subscriptions
                  /\ lastUpd' = lastUpd /\ rcv' = rcv
       /\ lastRet'.op = "personal" => ~lastRet'.raised
       /\ \A t \in ConnTasks :
              (pc[t] = "call" /\ job[t].op = "personal" /\ job[t].disc # <<>> /\ JobStep(t)) =>
                  /\ pc'[t] = "loop"
                  /\ lastRet' = [op |-> "personal", failed |-> TRUE, raised |-> FALSE]]_vars

\* a send_personal_message whose send_text raised has returned
C35_Witness ==
    /\ lastRet = [op |-> "personal", failed |-> TRUE, raised |-> FALSE]
    /\ \E ch \in Channels :
          /\ pc[ConnOf(ch)] = "loop" /\ ch \in broken
          /\ ~Has(active_connections, chanClient[ch])

\* the endpoint task of ch is past accept and inside its try block, and the
\* peer of ch is there
Live(p, b, ch) == p[ConnOf(ch)] \in {"loop", "call"} /\ ch \notin b

\* C36 as claimed: a connection whose receive loop runs and whose peer is
\* there keeps its WebSocket in the connection map and its id in the
\* subscriber lists through every step of the other tasks, whatever other
\* connections, with another or with the same client id, connect,
\* disconnect or fail.
C36_Claim ==
    [][\A ch \in Channels :
          LET t == ConnOf(ch)
              c == chanClient[ch]
          IN  (/\ Live(pc, broken, ch) /\ Live(pc', broken', ch)
               /\ pc'[t] = pc[t] /\ job'[t] = job[t]
               /\ Has(active_connections, c) /\ Ws(active_connections, c) = ch) =>
                  /\ Has(active_connections', c) /\ Ws(active_connections', c) = ch
                  /\ \A a \in Analyses :
                        InList(ListOf(analysis_subscriptions, a), c) =>
                            InList(ListOf(analysis_subscriptions', a), c)]_vars

\* C37 as claimed: whatever connections do through the endpoint, every
\* client id found in a subscriber list is a key of the connection map.
C37_Claim ==
    \A a \in DOMAIN analysis_subscriptions :
        \A c \in Range(analysis_subscriptions[a]) : Has(active_connections, c)

\* the receive loop of ch takes a decoded control message of some type
Decoded(ch) ==
    \/ \E a \in Analyses : RecvSubscribe(ch, a) \/ RecvUnsubscribe(ch, a)
    \/ RecvSubscribeNoId(ch) \/ RecvUnsubscribeNoId(ch)
    \/ RecvPing(ch) \/ RecvStatus(ch) \/ RecvUnknown(ch)

\* C38 as claimed: a decoded control message of any type, with or without
\* analysis_id, from a client whose WebSocket is registered and whose peer
\* is there, is answered with exactly one message written to the sender;
\* ping, status and unknown types change neither map.
C38_Claim ==
    [][\A ch \in Channels :
          LET t == ConnOf(ch)
              c == chanClient[ch]
          IN  /\ (/\ Decoded(ch) /\ ~SendFails(ch)
                   /\ Has(active_connections, c) /\ Ws(active_connections, c) = ch) =>
                      /\ pc'[t] = "call" /\ job'[t].op = "personal"
                      /\ job'[t].got = <<[id |-> c, ws |-> ch]>>
              /\ (pc[t] = "call" /\ job[t].op = "personal" /\ JobStep(t)) =>
                      pc'[t] = "loop" /\ job'[t] = IdleJob
              /\ (RecvPing(ch) \/ RecvStatus(ch) \/ RecvUnknown(ch)) =>
                      /\ active_connections' = active_connections
                      /\ analysis_subscriptions' = analysis_subscriptions]_vars

\* C39: a publish that is resumed after a send works on the subscriber
\* list as it was when the publish started, whatever was subscribed,
\* unsubscribed, registered or unregistered in between: it does not raise,
\* it writes to members of that list only, so a client that subscribed
\* later gets nothing, it writes to the next member that is still
\* registered, and it ends without a send when no such member is left.
C39_Theorem ==
    [][\A t \in Tasks :
          (pc[t] = "call" /\ job[t].op = "pub" /\ job'[t] # job[t]) =>
              LET rest == {job[t].snap[k] : k \in job[t].pos..Len(job[t].snap)}
                  next == {c \in rest : Has(active_connections, c)}
              IN  /\ job[t].start = Range(job[t].snap)
                  /\ IF next = {}
                     THEN /\ pc'[t] = job[t].ret
                          /\ lastRet'.op = "pub" /\ ~lastRet'.raised
                          /\ lastUpd' = lastUpd /\ rcv' = rcv
                     ELSE /\ pc'[t] = "call" /\ job'[t].op = "pub"
                          /\ job'[t].snap = job[t].snap
                          /\ Ids(job'[t].got) \cup Range(job'[t].disc) \subseteq job[t].start
                          /\ Len(job'[t].got) + Len(job'[t].disc)
                                = Len(job[t].got) + Len(job[t].disc) + 1
                          /\ Range(job'[t].skipped) \cap Keys(active_connections) = {}]_vars

\* a publish is suspended in a send while the topic has a registered
\* subscriber that was not on the list when the publish started
C39_Witness ==
    \E t \in Tasks :
        /\ pc[t] = "call" /\ job[t].op = "pub"
        /\ \E c \in Clients :
              /\ InList(ListOf(analysis_subscriptions, job[t].topic), c)
              /\ Has(active_connections, c)
              /\ c \notin job[t].start

\* what a workload has logged when it ends with the simulated failure code
FailedRun(code) ==
    SubSeq(CleanRun, 1, 12) \o
        <<Event("write", "FAILED", 0, code), Event("publish", "FAILED", 0, code)>>

\* the workload of a has committed a simulated failure
SimulatedFailure(a) ==
    \E i \in 1..Len(RunLog(a)) :
        RunLog(a)[i].ev = "write" /\ RunLog(a)[i].code \in error_scenarios

\* C40: a simulated failure comes after the whole progress sequence: a
\* record gets FAILED with MODEL_ERROR, MEMORY_ERROR, FORMAT_ERROR or
\* TIMEOUT_ERROR only from ANALYZING at 95, the workload has then committed
\* and published 5, 20, 40, 60, 80 and 95, publishes one FAILED update with
\* progress 0 and the code, and commits and publishes nothing after it.
C40_Theorem ==
    /\ [](\A a \in Workloads :
            /\ SimulatedFailure(a) =>
                  \E code \in error_scenarios : RunLog(a) = FailedRun(code)
            /\ (a \in DOMAIN db /\ db[a].error_code \in error_scenarios) =>
                  /\ db[a].status = "FAILED" /\ db[a].progress = 0
                  /\ SimulatedFailure(a))
    /\ [][\A a \in Workloads :
              (/\ a \in DOMAIN db /\ a \in DOMAIN db'
               /\ db'[a].error_code \in error_scenarios
               /\ db[a].error_code \notin error_scenarios) =>
                  /\ db[a].status = "ANALYZING" /\ db[a].progress = 95
                  /\ pc[Work(a)] = "commit" /\ pc'[Work(a)] \in {"call", "done"}]_vars

\* a workload has ended with TIMEOUT_ERROR and a subscriber has read the
\* six progress updates and then the FAILED update
C40_Witness ==
    \E a \in Workloads, ch \in Watchers :
        /\ pc[Work(a)] = "done" /\ a \in DOMAIN db
        /\ db[a].status = "FAILED" /\ db[a].error_code = "TIMEOUT_ERROR"
        /\ UpdatesOn(ch) = SubSeq(CleanUpdates, 1, 6) \o <<<<"FAILED", 0>>>>

====
